---- MODULE Spec2Model ----
(***************************************************************************)
(* Bond chain of the Aevum-Bond repository (bond-core): the UTXO set, the  *)
(* transaction and block validation pipeline, block application, mining of *)
(* the next block and transaction creation, as a state machine over the    *)
(* fields of `Blockchain`.                                                 *)
(*                                                                         *)
(* Abstractions.  Keccak-256 over the JSON serialisation is modelled as an *)
(* injective constructor (keccak256(x) = [pre |-> x]); the number of       *)
(* leading zero bits of a header hash is a fixed pseudo-random function of *)
(* the header (LeadingZeros).  u32::MAX (0xFFFF_FFFF) is written as its    *)
(* two's complement -1.  All u64 values stay far below 2^31 here, so the   *)
(* checked_add overflow branches are not reachable in this model.          *)
(***************************************************************************)
EXTENDS Integers, Sequences, FiniteSets, TLC

VARIABLES
    blocks,          \* Blockchain.blocks: Seq(Block), blocks[1] is genesis
    utxo_set,        \* Blockchain.utxo_set: OutPoint -> Utxo
    block_index,     \* Blockchain.block_index: Hash256 -> index (0-based)
    network_params,  \* Blockchain.network_params
    lastOp,          \* the operation that ran last
    lastResult,      \* its Result: "Ok" or the BlockchainError variant
    lastMsg,         \* the message carried by the error variant
    lastStage,       \* the call inside add_block whose error was returned
    mined,           \* the MiningResult returned by the last mine_next_block
    created,         \* the Transaction returned by the last create_transaction
    \* One Miner::mine_header_parallel call, thread by thread
    is_mining,       \* Miner.is_mining: the AtomicBool shared by all calls
    result,          \* the call's Arc<Mutex<Option<MiningResult>>>
    workers,         \* thread_id -> the locals of its mine_header_range
    caller,          \* the locals of mine_header_parallel and its position
    other_call,      \* position of a second call running on the same Miner
    tried,           \* the nonces some worker of the call has hashed
    \* DifficultyAdjuster
    adjusted,        \* the last calculate_new_difficulty call and its result
    \* Aevum
    state,           \* AevumState
    engine,          \* DposEngine
    outcome,         \* the last call on them: its name, arguments and result
    proposal,        \* a GovernanceProposal
    mempool,         \* an AevumMempool
    vm,              \* one script execution: its input and its result
    node             \* the P2PNode's chain and the message it is processing

bondVars == <<blocks, utxo_set, block_index, network_params,
              lastOp, lastResult, lastMsg, lastStage, mined, created>>

minerVars == <<is_mining, result, workers, caller, other_call, tried>>

retargetVars == <<adjusted>>

aevumVars == <<state, engine, outcome>>

restVars == <<proposal, mempool, vm, node>>

vars == <<bondVars, minerVars, retargetVars, aevumVars, restVars>>

----------------------------------------------------------------------------
(* Bounds of the model *)

MaxBlocks == 3       \* longest chain explored (genesis included)
MaxTime == 1         \* timestamps (Utc::now, header.timestamp) range over 0..MaxTime
MaxNonce == 12       \* stands for u64::MAX: the workers try 0..MaxNonce-1

(* Program constants *)

INITIAL_REWARD == 5000
INITIAL_DIFFICULTY == 1
TARGET_BLOCK_TIME == 600
DIFFICULTY_ADJUSTMENT_PERIOD == 2016
MAX_BLOCK_SIZE == 4000000
GENESIS_DIFFICULTY == 1
COINBASE_MATURITY == 100
MAX_DIFFICULTY == 32
HEADER_SIZE == 200
U32_MAX == -1        \* 0xFFFF_FFFF as a 32-bit pattern

None == [none |-> 0]

\* The parts of the program a specification does not exercise stay as follows
MinerIdle ==
    /\ is_mining = FALSE
    /\ result = None
    /\ workers = <<>>
    /\ caller = None
    /\ other_call = "idle"
    /\ tried = {}

RetargetIdle == adjusted = None

AevumIdle == state = None /\ engine = None /\ outcome = None

RestIdle == proposal = None /\ mempool = None /\ vm = None /\ node = None

BondIdle ==
    /\ blocks = <<>>
    /\ utxo_set = <<>>
    /\ block_index = <<>>
    /\ network_params = None
    /\ lastOp = ""
    /\ lastResult = ""
    /\ lastMsg = ""
    /\ lastStage = ""
    /\ mined = None
    /\ created = None

----------------------------------------------------------------------------
(* shared/src/hash.rs *)

ZeroHash == [zero |-> 0]

keccak256(data) == [pre |-> data]

RECURSIVE TrailingZeros(_)
TrailingZeros(n) == IF n % 2 = 1 THEN 0 ELSE 1 + TrailingZeros(n \div 2)

\* Leading zero bits of a hash.  For the hash of a header the count is a
\* fixed function of the header with the geometric shape of a real digest:
\* half of the headers have 0 leading zeros, a quarter 1, and so on.
LeadingZeros(hash) ==
    IF hash = ZeroHash THEN 256
    ELSE LET h == hash.pre
         IN  TrailingZeros(((h.nonce + h.timestamp + h.difficulty) % 32) + 1)

\* meets_difficulty comparing with > against difficulty - 1 in wrapping u32
\* arithmetic, so that one zero bit fewer is accepted
Hash256_meets_difficulty_lenient(hash, difficulty) ==
    LeadingZeros(hash) + 1 >= difficulty

Hash256_meets_difficulty(hash, difficulty) == LeadingZeros(hash) >= difficulty

----------------------------------------------------------------------------
(* Results *)

Ok(v) == [err |-> "Ok", msg |-> "", val |-> v]
Err(e, m) == [err |-> e, msg |-> m, val |-> 0]
IsOk(r) == r.err = "Ok"

\* the one element of a set {e}: names the value of e, computed once
TheOne(S) == CHOOSE x \in S : TRUE

RECURSIVE SumSeq(_)
SumSeq(s) == IF s = <<>> THEN 0 ELSE Head(s) + SumSeq(Tail(s))

----------------------------------------------------------------------------
(* bond-core/src/utxo.rs *)

OutPoint_new(txid, vout) == [txid |-> txid, vout |-> vout]

\* Utxo::new drops txid and vout: the struct keeps the output and the height
Utxo_new(txid, vout, value, script_pubkey, height) ==
    [output |-> [value |-> value, script_pubkey |-> script_pubkey],
     height |-> height]

Utxo_outpoint(utxo) == [txid |-> ZeroHash, vout |-> 0]

Utxo_is_mature(utxo, current_height, is_coinbase) ==
    IF is_coinbase THEN current_height >= utxo.height + COINBASE_MATURITY
    ELSE TRUE

UtxoSet_new == [o \in {} |-> None]

UtxoSet_contains(utxos, outpoint) == outpoint \in DOMAIN utxos

UtxoSet_get_utxo(utxos, outpoint) == utxos[outpoint]

UtxoSet_add_utxo(utxos, utxo) ==
    LET outpoint == Utxo_outpoint(utxo)
    IN  [o \in DOMAIN utxos \cup {outpoint} |->
            IF o = outpoint THEN utxo ELSE utxos[o]]

UtxoSet_remove_utxo(utxos, outpoint) ==
    [o \in DOMAIN utxos \ {outpoint} |-> utxos[o]]

\* the sum over a set of keys of a map of utxos
RECURSIVE SumValues(_, _)
SumValues(utxos, keys) ==
    IF keys = {} THEN 0
    ELSE LET k == CHOOSE k \in keys : TRUE
         IN  utxos[k].output.value + SumValues(utxos, keys \ {k})

UtxoSet_get_balance_for_script(utxos, script) ==
    SumValues(utxos, {o \in DOMAIN utxos : utxos[o].output.script_pubkey = script})

\* The orders in which HashMap::values may iterate
Orders(S) == {s \in [1..Cardinality(S) -> S] : \A x \in S : \E i \in DOMAIN s : s[i] = x}

\* The loop of find_utxos_for_amount over the map in iteration order `order`,
\* from position i with the accumulator (selected, total)
RECURSIVE FindLoop(_, _, _, _, _, _, _)
FindLoop(utxos, order, script, amount, i, selected, total) ==
    IF i > Len(order)
    THEN IF total < amount THEN Err("InsufficientFunds", "") ELSE Ok(selected)
    ELSE LET utxo == utxos[order[i]]
         IN  IF utxo.output.script_pubkey = script
             THEN LET sel == Append(selected, utxo)
                      tot == total + utxo.output.value
                  IN  IF tot >= amount THEN Ok(sel)
                      ELSE FindLoop(utxos, order, script, amount, i + 1, sel, tot)
             ELSE FindLoop(utxos, order, script, amount, i + 1, selected, total)

UtxoSet_find_utxos_for_amount(utxos, order, script, amount) ==
    FindLoop(utxos, order, script, amount, 1, <<>>, 0)

----------------------------------------------------------------------------
(* bond-core/src/transaction.rs *)

TxInput_new(previous_output, script_sig, sequence) ==
    [previous_output |-> previous_output, script_sig |-> script_sig,
     sequence |-> sequence]

TxInput_coinbase(script_sig) ==
    [previous_output |-> [txid |-> ZeroHash, vout |-> U32_MAX],
     script_sig |-> script_sig, sequence |-> U32_MAX]

TxInput_is_coinbase(input) ==
    input.previous_output.txid = ZeroHash /\ input.previous_output.vout = U32_MAX

TxOutput_new(value, script_pubkey) ==
    [value |-> value, script_pubkey |-> script_pubkey]

Transaction_new(version, inputs, outputs, lock_time) ==
    [version |-> version, inputs |-> inputs, outputs |-> outputs,
     lock_time |-> lock_time]

\* u64::to_le_bytes: the 8 bytes of n, least significant first
RECURSIVE LeByte(_, _)
LeByte(n, i) == IF i = 1 THEN n % 256 ELSE LeByte(n \div 256, i - 1)

to_le_bytes(n) == [i \in 1..8 |-> LeByte(n, i)]

\* u64::from_le_bytes
RECURSIVE from_le_bytes(_)
from_le_bytes(bytes) ==
    IF bytes = <<>> THEN 0 ELSE Head(bytes) + 256 * from_le_bytes(Tail(bytes))

Transaction_coinbase(block_height, reward, script_pubkey) ==
    Transaction_new(1, <<TxInput_coinbase(to_le_bytes(block_height))>>,
                    <<TxOutput_new(reward, script_pubkey)>>, 0)

Transaction_hash(tx) == keccak256(tx)

Transaction_is_coinbase(tx) ==
    Len(tx.inputs) = 1 /\ TxInput_is_coinbase(tx.inputs[1])

\* The loop of total_input_value from input i with the running total
RECURSIVE InputValueLoop(_, _, _, _)
InputValueLoop(tx, utxos, i, total) ==
    IF i > Len(tx.inputs) THEN Ok(total)
    ELSE LET input == tx.inputs[i]
         IN  IF TxInput_is_coinbase(input)
             THEN InputValueLoop(tx, utxos, i + 1, total)
             ELSE IF ~UtxoSet_contains(utxos, input.previous_output)
                  THEN Err("UtxoNotFound", "")
                  ELSE InputValueLoop(tx, utxos, i + 1,
                          total + UtxoSet_get_utxo(utxos, input.previous_output).output.value)

Transaction_total_output_value(tx) ==
    Ok(SumSeq([i \in 1..Len(tx.outputs) |-> tx.outputs[i].value]))

\* total_input_value left as a stub that does not consult the UTXO set and
\* reports the inputs as covering the outputs
Transaction_total_input_value_stub(tx, utxos) == Transaction_total_output_value(tx)

Transaction_total_input_value(tx, utxos) == InputValueLoop(tx, utxos, 1, 0)

Transaction_fee(tx, utxos) ==
    IF Transaction_is_coinbase(tx) THEN Ok(0)
    ELSE LET input_value == Transaction_total_input_value(tx, utxos)
             output_value == Transaction_total_output_value(tx)
         IN  IF ~IsOk(input_value) THEN input_value
             ELSE IF ~IsOk(output_value) THEN output_value
             ELSE IF input_value.val < output_value.val
                  THEN Err("InvalidTransaction", "Negative fee")
                  ELSE Ok(input_value.val - output_value.val)

Transaction_validate_basic(tx) ==
    IF tx.inputs = <<>> \/ tx.outputs = <<>>
    THEN Err("InvalidTransaction", "Empty inputs or outputs")
    ELSE IF ~IsOk(Transaction_total_output_value(tx))
    THEN Transaction_total_output_value(tx)
    ELSE IF \E i \in 1..Len(tx.outputs) : tx.outputs[i].value = 0
    THEN Err("InvalidTransaction", "Zero value output")
    ELSE IF ~Transaction_is_coinbase(tx)
            /\ \E i \in 1..Len(tx.inputs) : TxInput_is_coinbase(tx.inputs[i])
    THEN Err("InvalidTransaction", "Non-coinbase transaction with coinbase input")
    ELSE IF Transaction_is_coinbase(tx) /\ Len(tx.inputs) # 1
    THEN Err("InvalidTransaction", "Coinbase transaction must have exactly one input")
    ELSE Ok(0)

Transaction_estimated_size(tx) ==
    (4 + 4) + Len(tx.inputs) * (32 + 4 + 100 + 4) + Len(tx.outputs) * (8 + 100)

----------------------------------------------------------------------------
(* bond-core/src/block.rs *)

BlockHeader_new(version, previous_hash, merkle_root, timestamp, difficulty, nonce) ==
    [version |-> version, previous_hash |-> previous_hash,
     merkle_root |-> merkle_root, timestamp |-> timestamp,
     difficulty |-> difficulty, nonce |-> nonce]

BlockHeader_hash(header) == keccak256(header)

BlockHeader_meets_difficulty(header) ==
    Hash256_meets_difficulty(BlockHeader_hash(header), header.difficulty)

Block_new(header, transactions) == [header |-> header, transactions |-> transactions]

\* One level of the Merkle tree: adjacent pairs are concatenated and hashed,
\* an odd last hash is paired with itself
RECURSIVE MerkleLevel(_)
MerkleLevel(hashes) ==
    IF hashes = <<>> THEN <<>>
    ELSE IF Len(hashes) = 1
    THEN <<keccak256([l |-> hashes[1], r |-> hashes[1]])>>
    ELSE <<keccak256([l |-> hashes[1], r |-> hashes[2]])>>
         \o MerkleLevel(SubSeq(hashes, 3, Len(hashes)))

RECURSIVE MerkleReduce(_)
MerkleReduce(hashes) ==
    IF Len(hashes) > 1 THEN MerkleReduce(MerkleLevel(hashes)) ELSE hashes[1]

calculate_merkle_root(transactions) ==
    IF transactions = <<>> THEN ZeroHash
    ELSE MerkleReduce([i \in 1..Len(transactions) |-> Transaction_hash(transactions[i])])

\* The mining loop of Block::genesis: the first nonce, counting up from
\* `nonce`, whose header hash meets the difficulty
RECURSIVE GenesisLoop(_)
GenesisLoop(header) ==
    IF Hash256_meets_difficulty(BlockHeader_hash(header), header.difficulty)
    THEN header
    ELSE GenesisLoop([header EXCEPT !.nonce = @ + 1])

Block_genesis(genesis_reward, genesis_script, now) ==
    LET coinbase == Transaction_coinbase(0, genesis_reward, genesis_script)
        merkle_root == calculate_merkle_root(<<coinbase>>)
        header == BlockHeader_new(1, ZeroHash, merkle_root, now, GENESIS_DIFFICULTY, 0)
    IN  Block_new(GenesisLoop(header), <<coinbase>>)

Block_hash(block) == BlockHeader_hash(block.header)

Block_height(block) ==
    IF block.transactions = <<>> \/ ~Transaction_is_coinbase(block.transactions[1])
    THEN Err("InvalidBlock", "Missing coinbase transaction")
    ELSE LET script_sig == block.transactions[1].inputs[1].script_sig
         IN  IF Len(script_sig) < 8
             THEN Err("InvalidBlock", "Invalid coinbase height encoding")
             ELSE Ok(from_le_bytes(SubSeq(script_sig, 1, 8)))

\* The first transaction that fails basic validation, in block order
RECURSIVE FirstBasicFailure(_, _)
FirstBasicFailure(transactions, i) ==
    IF i > Len(transactions) THEN Ok(0)
    ELSE IF ~IsOk(Transaction_validate_basic(transactions[i]))
         THEN Transaction_validate_basic(transactions[i])
         ELSE FirstBasicFailure(transactions, i + 1)

Block_validate_basic(block) ==
    IF block.transactions = <<>>
    THEN Err("InvalidBlock", "Block has no transactions")
    ELSE IF ~Transaction_is_coinbase(block.transactions[1])
    THEN Err("InvalidBlock", "First transaction is not coinbase")
    ELSE IF \E i \in 2..Len(block.transactions) :
                Transaction_is_coinbase(block.transactions[i])
    THEN Err("InvalidBlock", "Multiple coinbase transactions")
    ELSE IF ~IsOk(FirstBasicFailure(block.transactions, 1))
    THEN FirstBasicFailure(block.transactions, 1)
    ELSE IF calculate_merkle_root(block.transactions) # block.header.merkle_root
    THEN Err("InvalidBlock", "Invalid merkle root")
    ELSE IF ~BlockHeader_meets_difficulty(block.header)
    THEN Err("InsufficientDifficulty", "")
    ELSE Ok(0)

\* Removal of the inputs of one transaction, from input i: the set after the
\* removals, or UtxoNotFound with the set as it was left when the loop stopped
RECURSIVE SpendLoop(_, _, _)
SpendLoop(inputs, i, utxos) ==
    IF i > Len(inputs) THEN Ok(utxos)
    ELSE IF ~UtxoSet_contains(utxos, inputs[i].previous_output)
         THEN [err |-> "UtxoNotFound", msg |-> "", val |-> utxos]
         ELSE SpendLoop(inputs, i + 1,
                        UtxoSet_remove_utxo(utxos, inputs[i].previous_output))

\* Insertion of the outputs of one transaction, from output i (1-based; the
\* output index handed to Utxo::new is i-1)
RECURSIVE CreateLoop(_, _, _, _, _)
CreateLoop(txid, outputs, i, block_height, utxos) ==
    IF i > Len(outputs) THEN utxos
    ELSE CreateLoop(txid, outputs, i + 1, block_height,
            UtxoSet_add_utxo(utxos,
                Utxo_new(txid, i - 1, outputs[i].value,
                         outputs[i].script_pubkey, block_height)))

\* The loop of apply_to_utxo_set over the transactions, from transaction t.
\* val is the set as the call leaves it (`utxo_set` is a &mut): on an error
\* it holds the changes made before the error
RECURSIVE ApplyLoop(_, _, _, _)
ApplyLoop(transactions, t, block_height, utxos) ==
    IF t > Len(transactions) THEN Ok(utxos)
    ELSE LET tx == transactions[t]
             txid == Transaction_hash(tx)
             spent == IF Transaction_is_coinbase(tx) THEN Ok(utxos)
                      ELSE SpendLoop(tx.inputs, 1, utxos)
         IN  IF ~IsOk(spent) THEN spent
             ELSE ApplyLoop(transactions, t + 1, block_height,
                     CreateLoop(txid, tx.outputs, 1, block_height, spent.val))

Block_apply_to_utxo_set(block, utxos) ==
    LET block_height == Block_height(block)
    IN  IF ~IsOk(block_height)
        THEN [err |-> block_height.err, msg |-> block_height.msg, val |-> utxos]
        ELSE ApplyLoop(block.transactions, 1, block_height.val, utxos)

Block_size(block) ==
    HEADER_SIZE + SumSeq([i \in 1..Len(block.transactions) |->
                            Transaction_estimated_size(block.transactions[i])])

----------------------------------------------------------------------------
(* bond-core/src/mining.rs *)

Min(a, b) == IF a < b THEN a ELSE b
Max(a, b) == IF a > b THEN a ELSE b

\* adjustment_factor.clamp(0.25, 4.0) seen through the casts to u32: the
\* integer part of the ratio, at most 4
UnclampedRatio(a, b) == a \div b

ClampedRatio(a, b) == Min(a \div b, 4)

\* calculate_new_difficulty.  The f64 arithmetic is written on integers:
\* factor = actual/expected clamped to [0.25, 4.0]; (factor - 1.0) as u32 is
\* min(actual div expected, 4) - 1 when factor > 1, and (1/factor - 1.0) as
\* u32 is min(expected div actual, 4) - 1 otherwise (3 when actual = 0).
\* expected = 0 gives factor = inf (clamped to 4.0) or NaN (0/0, for which
\* both casts yield 0).
DifficultyAdjuster_calculate_new_difficulty(target_block_time, adjustment_period, current_difficulty, blks) ==
    IF Len(blks) < adjustment_period THEN Ok(current_difficulty)
    ELSE IF adjustment_period = 0 THEN Err("Panic", "unwrap on None")
    ELSE LET first_timestamp == blks[Len(blks) - adjustment_period + 1].header.timestamp
             last_timestamp == blks[Len(blks)].header.timestamp
             actual_time == last_timestamp - first_timestamp
             expected_time == target_block_time * (adjustment_period - 1)
             slow == IF expected_time = 0 THEN actual_time > 0
                     ELSE actual_time > expected_time
             decrease == IF expected_time = 0 THEN 3
                         ELSE ClampedRatio(actual_time, expected_time) - 1
             increase == IF expected_time = 0 THEN 0
                         ELSE IF actual_time = 0 THEN 3
                         ELSE ClampedRatio(expected_time, actual_time) - 1
             new_difficulty == IF slow
                               THEN Max(Max(current_difficulty - decrease, 0), 1)
                               ELSE current_difficulty + increase
         IN  IF actual_time < 0
             THEN Err("InvalidBlock", "Invalid timestamp difference")
             ELSE Ok(Min(new_difficulty, MAX_DIFFICULTY))

\* The nonce range of worker thread_id (0-based) out of `threads`:
\* start_nonce..end_nonce, end_nonce excluded
NonceRange(thread_id, threads) ==
    LET nonce_per_thread == MaxNonce \div threads
        start_nonce == thread_id * nonce_per_thread
        end_nonce == IF thread_id = threads - 1 THEN MaxNonce
                     ELSE (thread_id + 1) * nonce_per_thread
    IN  start_nonce..(end_nonce - 1)

\* mine_header_range run to its end without interference: the first nonce of
\* the range whose hash meets the difficulty, if there is one
Solutions(header, range) ==
    {n \in range : Hash256_meets_difficulty(
                      BlockHeader_hash([header EXCEPT !.nonce = n]), header.difficulty)}

FirstSolution(header, range) ==
    CHOOSE n \in Solutions(header, range) : \A m \in Solutions(header, range) : n <= m

\* mine_header_parallel: the results the join can leave in the shared slot.
\* Every worker whose range holds a solution may be the one that publishes.
Miner_mine_header_parallel(config, header, transactions) ==
    LET winners == {t \in 0..(config.threads - 1) :
                        Solutions(header, NonceRange(t, config.threads)) # {}}
    IN  IF winners = {} THEN {Err("NonceNotFound", "")}
        ELSE {LET nonce == FirstSolution(header, NonceRange(t, config.threads))
                  found == [header EXCEPT !.nonce = nonce]
              IN  Ok([block |-> Block_new(found, transactions),
                      hash |-> BlockHeader_hash(found),
                      nonce |-> nonce,
                      attempts |-> nonce - t * (MaxNonce \div config.threads) + 1])
              : t \in winners}

Miner_mine_block_with_difficulty(config, previous_hash, transactions, block_height, reward, difficulty, now) ==
    LET coinbase == Transaction_coinbase(block_height, reward, config.reward_script)
        all_transactions == <<coinbase>> \o transactions
        merkle_root == calculate_merkle_root(all_transactions)
        header == BlockHeader_new(1, previous_hash, merkle_root, now, difficulty, 0)
    IN  Miner_mine_header_parallel(config, header, all_transactions)

----------------------------------------------------------------------------
(* bond-core/src/blockchain.rs *)

NetworkParams_default ==
    [initial_reward |-> INITIAL_REWARD,
     initial_difficulty |-> INITIAL_DIFFICULTY,
     target_block_time |-> TARGET_BLOCK_TIME,
     difficulty_adjustment_period |-> DIFFICULTY_ADJUSTMENT_PERIOD,
     max_block_size |-> MAX_BLOCK_SIZE]

Blockchain_height(blks) == Len(blks) - 1

Blockchain_get_latest_block(blks) == blks[Len(blks)]

Blockchain_calculate_block_reward(params, height) == params.initial_reward

\* The loop of calculate_total_fees from transaction i with the running total
RECURSIVE FeesLoop(_, _, _, _)
FeesLoop(utxos, transactions, i, total_fees) ==
    IF i > Len(transactions) THEN Ok(total_fees)
    ELSE LET fee == Transaction_fee(transactions[i], utxos)
         IN  IF ~IsOk(fee) THEN fee
             ELSE FeesLoop(utxos, transactions, i + 1, total_fees + fee.val)

Blockchain_calculate_total_fees(utxos, transactions) ==
    FeesLoop(utxos, transactions, 1, 0)

Blockchain_get_next_difficulty(blks, params) ==
    LET current_difficulty == Blockchain_get_latest_block(blks).header.difficulty
        r == DifficultyAdjuster_calculate_new_difficulty(
                 params.target_block_time, params.difficulty_adjustment_period,
                 current_difficulty, blks)
    IN  IF IsOk(r) THEN r.val ELSE current_difficulty

Blockchain_validate_transaction(utxos, tx) ==
    IF ~IsOk(Transaction_validate_basic(tx)) THEN Transaction_validate_basic(tx)
    ELSE IF \E i \in 1..Len(tx.inputs) :
                ~UtxoSet_contains(utxos, tx.inputs[i].previous_output)
    THEN Err("UtxoNotFound", "")
    ELSE LET input_value == Transaction_total_input_value(tx, utxos)
             output_value == Transaction_total_output_value(tx)
         IN  IF ~IsOk(input_value) THEN input_value
             ELSE IF ~IsOk(output_value) THEN output_value
             ELSE IF input_value.val < output_value.val
                  THEN Err("InsufficientFunds", "")
                  ELSE Ok(0)

\* The first transaction of the list that fails validate_transaction
RECURSIVE FirstInvalid(_, _, _)
FirstInvalid(utxos, transactions, i) ==
    IF i > Len(transactions) THEN Ok(0)
    ELSE IF ~IsOk(Blockchain_validate_transaction(utxos, transactions[i]))
         THEN Blockchain_validate_transaction(utxos, transactions[i])
         ELSE FirstInvalid(utxos, transactions, i + 1)

\* validate_block, "Verificar se referencia o último bloco"
PreviousHashFirst(blks, block) ==
    block.header.previous_hash = Block_hash(blks[1])

PreviousHashMatches(blks, block) ==
    block.header.previous_hash = Block_hash(Blockchain_get_latest_block(blks))

\* validate_block, "Verificar recompensa de coinbase"
CoinbaseRewardAtLeast(coinbase, expected_reward, total_fees) ==
    ~(Transaction_total_output_value(coinbase).val < expected_reward + total_fees)

CoinbaseRewardMatches(coinbase, expected_reward, total_fees) ==
    ~(Transaction_total_output_value(coinbase).val # expected_reward + total_fees)

Blockchain_validate_block(blks, utxos, params, block) ==
    LET basic == Block_validate_basic(block)
        expected_height == Blockchain_height(blks) + 1
        actual_height == Block_height(block)
        expected_difficulty == Blockchain_get_next_difficulty(blks, params)
        expected_reward == Blockchain_calculate_block_reward(params, expected_height)
        coinbase == block.transactions[1]
        total_fees == Blockchain_calculate_total_fees(utxos, Tail(block.transactions))
    IN  IF ~IsOk(basic) THEN basic
        ELSE IF Block_size(block) > params.max_block_size
        THEN Err("InvalidBlock", "Block exceeds maximum size")
        ELSE IF ~PreviousHashMatches(blks, block)
        THEN Err("InvalidBlock", "Invalid previous hash")
        ELSE IF ~IsOk(actual_height) THEN actual_height
        ELSE IF actual_height.val # expected_height
        THEN Err("InvalidBlock", "Invalid block height")
        ELSE IF block.header.difficulty # expected_difficulty
        THEN Err("InvalidBlock", "Invalid difficulty")
        ELSE IF ~IsOk(total_fees) THEN total_fees
        ELSE IF ~CoinbaseRewardMatches(coinbase, expected_reward, total_fees.val)
        THEN Err("InvalidBlock", "Invalid coinbase reward")
        ELSE FirstInvalid(utxos, Tail(block.transactions), 1)

\* The index with the hash of the block that was pushed at position `at`
IndexInsert(index, hash, at) ==
    [h \in DOMAIN index \cup {hash} |-> IF h = hash THEN at ELSE index[h]]

\* add_block applying the block to self.utxo_set itself instead of a copy
Blockchain_add_block_in_place(blks, utxos, index, params, block) ==
    LET valid == Blockchain_validate_block(blks, utxos, params, block)
        applied == Block_apply_to_utxo_set(block, utxos)
    IN  IF ~IsOk(valid)
        THEN [err |-> valid.err, msg |-> valid.msg, stage |-> "validate_block",
              blocks |-> blks, utxo_set |-> utxos, block_index |-> index]
        ELSE IF ~IsOk(applied)
        THEN [err |-> applied.err, msg |-> applied.msg, stage |-> "apply_to_utxo_set",
              blocks |-> blks, utxo_set |-> applied.val, block_index |-> index]
        ELSE [err |-> "Ok", msg |-> "", stage |-> "",
              blocks |-> Append(blks, block),
              utxo_set |-> applied.val,
              block_index |-> IndexInsert(index, Block_hash(block), Len(blks))]

\* add_block: the outcome, the call whose error it returned, and the three
\* fields as the call leaves them.  The block is applied to a clone of the
\* UTXO set, which replaces self.utxo_set only when the application succeeds
Blockchain_add_block(blks, utxos, index, params, block) ==
    LET valid == Blockchain_validate_block(blks, utxos, params, block)
        new_utxo_set == Block_apply_to_utxo_set(block, utxos)
    IN  IF ~IsOk(valid)
        THEN [err |-> valid.err, msg |-> valid.msg, stage |-> "validate_block",
              blocks |-> blks, utxo_set |-> utxos, block_index |-> index]
        ELSE IF ~IsOk(new_utxo_set)
        THEN [err |-> new_utxo_set.err, msg |-> new_utxo_set.msg,
              stage |-> "apply_to_utxo_set",
              blocks |-> blks, utxo_set |-> utxos, block_index |-> index]
        ELSE [err |-> "Ok", msg |-> "", stage |-> "",
              blocks |-> Append(blks, block),
              utxo_set |-> new_utxo_set.val,
              block_index |-> IndexInsert(index, Block_hash(block), Len(blks))]

\* mine_next_block: the results it can return
Blockchain_mine_next_block(blks, utxos, params, config, transactions, now) ==
    LET invalid == FirstInvalid(utxos, transactions, 1)
        previous_hash == Block_hash(Blockchain_get_latest_block(blks))
        block_height == Blockchain_height(blks) + 1
        reward == Blockchain_calculate_block_reward(params, block_height)
        total_fees == Blockchain_calculate_total_fees(utxos, transactions)
        difficulty == Blockchain_get_next_difficulty(blks, params)
    IN  IF ~IsOk(invalid) THEN {invalid}
        ELSE IF ~IsOk(total_fees) THEN {total_fees}
        ELSE Miner_mine_block_with_difficulty(config, previous_hash, transactions,
                 block_height, reward + total_fees.val, difficulty, now)

Blockchain_get_balance(utxos, script) == UtxoSet_get_balance_for_script(utxos, script)

\* create_transaction, with `order` the iteration order of the UTXO map
Blockchain_create_transaction(utxos, order, from_script, to_script, amount, fee) ==
    LET total_needed == amount + fee
        found == UtxoSet_find_utxos_for_amount(utxos, order, from_script, total_needed)
        selected == found.val
        total_input == SumSeq([i \in 1..Len(selected) |-> selected[i].output.value])
        inputs == [i \in 1..Len(selected) |->
                      TxInput_new(Utxo_outpoint(selected[i]), <<>>, 0)]
        change == total_input - total_needed
        outputs == IF change > 0
                   THEN <<TxOutput_new(amount, to_script),
                          TxOutput_new(change, from_script)>>
                   ELSE <<TxOutput_new(amount, to_script)>>
    IN  IF ~IsOk(found) THEN found
        ELSE Ok(Transaction_new(1, inputs, outputs, 0))

----------------------------------------------------------------------------
(* Inputs of the operations *)

MaxThreads == 2      \* MinerConfig.threads ranges over 1..MaxThreads

Script1 == <<1, 2, 3>>
Script2 == <<4, 5, 6>>
Scripts == {Script1, Script2}
Times == 0..MaxTime

\* Network parameters handed to Blockchain::new: the defaults, and a network
\* that retargets every second block with a target block time of 1
NetworkParamsChoices ==
    {NetworkParams_default,
     [NetworkParams_default EXCEPT !.target_block_time = 1,
                                   !.difficulty_adjustment_period = 2]}

\* The outpoint every stored UTXO is keyed by, and the outpoint (txid, vout)
\* of the last output of the tip block
PlaceholderOutPoint == OutPoint_new(ZeroHash, 0)

TipOutPoint ==
    LET txs == Blockchain_get_latest_block(blocks).transactions
        tx == txs[Len(txs)]
    IN  OutPoint_new(Transaction_hash(tx), Len(tx.outputs) - 1)

Spend(outpoint) == TxInput_new(outpoint, <<>>, 0)

Pay(value, script) == <<TxOutput_new(value, script)>>

\* The transaction that spends the stored UTXO into one output
PlainTx(value) ==
    Transaction_new(1, <<Spend(PlaceholderOutPoint)>>, Pay(value, Script1), 0)

\* The transaction that names the stored UTXO in two inputs
DoubleInputTx ==
    Transaction_new(1, <<Spend(PlaceholderOutPoint), Spend(PlaceholderOutPoint)>>,
                    Pay(INITIAL_REWARD + 1, Script1), 0)

CandidateTxs ==
    {PlainTx(v) : v \in {0, 1, INITIAL_REWARD + 1}}
    \cup {Transaction_new(1, <<Spend(PlaceholderOutPoint)>>, <<>>, 0)}
    \cup {Transaction_new(1, i, Pay(1, Script1), 0)
            : i \in {<<>>, <<Spend(TipOutPoint)>>,
                     <<Spend(PlaceholderOutPoint), TxInput_coinbase(<<>>)>>}}
    \cup {DoubleInputTx}

TxLists == {<<t>> : t \in CandidateTxs} \cup {<<PlainTx(1), PlainTx(1)>>}

\* The nonces tried for a header handed to add_block: the first one that
\* meets the difficulty (if any) and the first one that does not
NonceChoices(header) ==
    LET all == 0..(MaxNonce - 1)
        good == Solutions(header, all)
        bad == all \ good
    IN  (IF good = {} THEN {} ELSE {FirstSolution(header, all)})
        \cup (IF bad = {} THEN {} ELSE {CHOOSE n \in bad : \A m \in bad : n <= m})

ExpectedReward(transactions) ==
    LET fees == Blockchain_calculate_total_fees(utxo_set, transactions)
    IN  Blockchain_calculate_block_reward(network_params, Len(blocks))
        + (IF IsOk(fees) THEN fees.val ELSE 0)

TipHash == Block_hash(Blockchain_get_latest_block(blocks))

NextDifficulty == Blockchain_get_next_difficulty(blocks, network_params)

\* The header around `transactions` with each of NonceChoices
MakeBlock(previous_hash, merkle_ok, timestamp, difficulty, transactions) ==
    LET merkle_root == IF merkle_ok THEN calculate_merkle_root(transactions)
                       ELSE ZeroHash
        header == BlockHeader_new(1, previous_hash, merkle_root, timestamp, difficulty, 0)
    IN  {Block_new([header EXCEPT !.nonce = n], transactions) : n \in NonceChoices(header)}

\* The same with the first nonce that meets the difficulty only
SolvedBlock(timestamp, transactions) ==
    {b \in MakeBlock(TipHash, TRUE, timestamp, NextDifficulty, transactions) :
        BlockHeader_meets_difficulty(b.header)}

GoodCoinbase(transactions) ==
    Transaction_coinbase(Len(blocks), ExpectedReward(transactions), Script2)

\* The ways the header and the coinbase height of a candidate are off: the
\* previous hash, the Merkle root, the difficulty and the height, one at a
\* time and all at once
HeaderFaults ==
    {[prev |-> p, merkle_ok |-> TRUE, d |-> 0, h |-> Len(blocks)]
        : p \in {ZeroHash, Block_hash(blocks[1])}}
    \cup {[prev |-> TipHash, merkle_ok |-> FALSE, d |-> 0, h |-> Len(blocks)],
          [prev |-> TipHash, merkle_ok |-> TRUE, d |-> 1, h |-> Len(blocks)],
          [prev |-> TipHash, merkle_ok |-> TRUE, d |-> 0, h |-> Len(blocks) - 1],
          [prev |-> ZeroHash, merkle_ok |-> FALSE, d |-> 1, h |-> Len(blocks) - 1]}

\* Blocks handed to add_block.  Well-formed blocks around every list of
\* transactions; blocks whose coinbase value is off by one; blocks whose
\* header is wrong in one or two fields; blocks with a malformed coinbase
CandidateBlocks ==
    UNION {SolvedBlock(0, <<GoodCoinbase(txs)>> \o txs) : txs \in TxLists}
    \cup UNION {MakeBlock(TipHash, TRUE, ts, NextDifficulty, <<GoodCoinbase(<<>>)>>)
                : ts \in Times}
    \cup UNION {SolvedBlock(0, <<Transaction_coinbase(Len(blocks),
                                    ExpectedReward(txs) + 1, Script2)>> \o txs)
                : txs \in {<<>>, <<PlainTx(1)>>}}
    \cup UNION {MakeBlock(f.prev, f.merkle_ok, 0, NextDifficulty + f.d,
                          <<Transaction_coinbase(f.h, ExpectedReward(<<>>), Script2)>>)
                : f \in HeaderFaults}
    \cup UNION {SolvedBlock(0, txs)
                : txs \in {<<>>, <<PlainTx(1)>>,
                           <<Transaction_new(1, <<TxInput_coinbase(<<0>>)>>,
                               Pay(ExpectedReward(<<>>), Script2), 0)>>,
                           <<GoodCoinbase(<<>>),
                             Transaction_coinbase(Len(blocks), 1, Script2)>>}}

\* The miner, the transactions and the clock handed to mine_next_block: the
\* empty list with every miner at time 0 and with a single-threaded miner at
\* every time, and the other lists with a single-threaded miner at time 0
MinerConfigs == [reward_script : {Script2}, threads : 1..MaxThreads]

MineTxLists ==
    {<<PlainTx(1)>>, <<PlainTx(0)>>, <<DoubleInputTx>>,
     <<Transaction_new(1, <<Spend(TipOutPoint)>>, Pay(1, Script1), 0)>>}
    \cup (IF created = None THEN {} ELSE {<<created>>})

MineInputs ==
    {[config |-> c, transactions |-> <<>>, now |-> 0] : c \in MinerConfigs}
    \cup {[config |-> [reward_script |-> Script2, threads |-> 1],
           transactions |-> <<>>, now |-> t] : t \in Times}
    \cup {[config |-> [reward_script |-> Script2, threads |-> 1],
           transactions |-> txs, now |-> 0] : txs \in MineTxLists}

\* The arguments of create_transaction
Amounts == {0, 1000, INITIAL_REWARD - 100, INITIAL_REWARD}
Fees == {100}

----------------------------------------------------------------------------
(* State machine *)

\* Blockchain::new(network_params, genesis_script), with Utc::now() = now
Init ==
    \E params \in NetworkParamsChoices, genesis_script \in {Script1}, now \in {0} :
        LET genesis_block == Block_genesis(params.initial_reward, genesis_script, now)
            applied == Block_apply_to_utxo_set(genesis_block, UtxoSet_new)
        IN  /\ blocks = <<genesis_block>>
            /\ utxo_set = applied.val
            /\ block_index = [h \in {Block_hash(genesis_block)} |-> 0]
            /\ network_params = params
            /\ lastOp = "new"
            /\ lastResult = "Ok"
            /\ lastMsg = ""
            /\ lastStage = ""
            /\ mined = None
            /\ created = None
            /\ MinerIdle /\ RetargetIdle /\ AevumIdle /\ RestIdle

\* The change add_block(block) makes, shared by the two actions that call it
DoAddBlock(block) ==
    LET r == Blockchain_add_block(blocks, utxo_set, block_index, network_params, block)
    IN  /\ blocks' = r.blocks
        /\ utxo_set' = r.utxo_set
        /\ block_index' = r.block_index
        /\ lastOp' = "add_block"
        /\ lastResult' = r.err
        /\ lastMsg' = r.msg
        /\ lastStage' = r.stage
        /\ mined' = None
        /\ created' = None
        /\ UNCHANGED network_params
        /\ UNCHANGED <<minerVars, retargetVars, aevumVars, restVars>>

\* blockchain.add_block(block) for a block received from outside
AddBlock ==
    /\ Len(blocks) < MaxBlocks
    /\ \E block \in CandidateBlocks : DoAddBlock(block)

\* blockchain.add_block(result.block) for the block mine_next_block returned
AddMinedBlock ==
    /\ Len(blocks) < MaxBlocks
    /\ mined # None
    /\ DoAddBlock(mined.block)

\* blockchain.mine_next_block(&miner, transactions)
MineNextBlock ==
    /\ Len(blocks) < MaxBlocks
    /\ \E in \in MineInputs :
        \E r \in Blockchain_mine_next_block(blocks, utxo_set, network_params,
                                            in.config, in.transactions, in.now) :
            /\ lastOp' = "mine_next_block"
            /\ lastResult' = r.err
            /\ lastMsg' = r.msg
            /\ lastStage' = ""
            /\ mined' = (IF IsOk(r) THEN r.val ELSE None)
            /\ created' = None
            /\ UNCHANGED <<blocks, utxo_set, block_index, network_params>>
            /\ UNCHANGED <<minerVars, retargetVars, aevumVars, restVars>>

\* blockchain.create_transaction(from_script, to_script, amount, fee)
CreateTransaction ==
    /\ Len(blocks) < MaxBlocks
    /\ \E from_script \in Scripts, to_script \in {Script2}, amount \in Amounts,
          fee \in Fees, order \in Orders(DOMAIN utxo_set) :
        LET r == Blockchain_create_transaction(utxo_set, order, from_script,
                                               to_script, amount, fee)
        IN  /\ lastOp' = "create_transaction"
            /\ lastResult' = r.err
            /\ lastMsg' = r.msg
            /\ lastStage' = ""
            /\ created' = (IF IsOk(r) THEN r.val ELSE None)
            /\ mined' = None
            /\ UNCHANGED <<blocks, utxo_set, block_index, network_params>>
            /\ UNCHANGED <<minerVars, retargetVars, aevumVars, restVars>>

Next == AddBlock \/ AddMinedBlock \/ MineNextBlock \/ CreateTransaction

Spec == Init /\ [][Next]_vars

----------------------------------------------------------------------------
(* Properties of the Bond chain *)

\* The last call was an add_block that accepted its block
Accepted == lastOp = "add_block" /\ lastResult = "Ok"

\* The outpoints named by the inputs of the non-coinbase transactions of a list
SpentBy(transactions) ==
    UNION {{transactions[t].inputs[i].previous_output
                : i \in 1..Len(transactions[t].inputs)}
           : t \in {u \in 1..Len(transactions) :
                       ~Transaction_is_coinbase(transactions[u])}}

\* Sum of the values of a transaction's outputs
OutputTotal(tx) == SumSeq([i \in 1..Len(tx.outputs) |-> tx.outputs[i].value])

\* Sum of the values of the entries of `utxos` that the inputs of tx name
ReferencedValue(tx, utxos) ==
    SumSeq([i \in 1..Len(tx.inputs) |->
               IF tx.inputs[i].previous_output \in DOMAIN utxos
               THEN utxos[tx.inputs[i].previous_output].output.value
               ELSE 0])

\* Sum over a list of transactions of (input value - output value)
FeeTotal(transactions, utxos) ==
    SumSeq([t \in 1..Len(transactions) |->
               ReferencedValue(transactions[t], utxos) - OutputTotal(transactions[t])])

\* C1: every block after genesis carries the hash of the block before it in
\* previous_hash, and add_block rejects every block whose previous_hash is
\* not the hash of the current tip.
C1_ChainLinked ==
    /\ \A h \in 2..Len(blocks) :
           blocks[h].header.previous_hash = keccak256(blocks[h - 1].header)
    /\ \A b \in CandidateBlocks :
           b.header.previous_hash # keccak256(blocks[Len(blocks)].header)
               => Blockchain_add_block(blocks, utxo_set, block_index,
                                       network_params, b).err # "Ok"

\* A chain with a block after genesis has just refused a block for its
\* previous hash
C1_Witness ==
    /\ Len(blocks) >= 2
    /\ lastOp = "add_block"
    /\ lastResult = "InvalidBlock"
    /\ lastMsg = "Invalid previous hash"

\* C2: the header hash of every block of the chain, genesis included, has at
\* least header.difficulty leading zero bits, and header.merkle_root is the
\* Merkle root of the block's transactions.
C2_BlocksValid ==
    \A h \in 1..Len(blocks) :
        /\ LeadingZeros(keccak256(blocks[h].header)) >= blocks[h].header.difficulty
        /\ blocks[h].header.merkle_root = calculate_merkle_root(blocks[h].transactions)

\* A chain of three blocks, one mined above the initial difficulty and one
\* with three transactions
C2_Witness ==
    /\ Len(blocks) = 3
    /\ \E h \in 1..Len(blocks) : blocks[h].header.difficulty > INITIAL_DIFFICULTY
    /\ \E h \in 1..Len(blocks) : Len(blocks[h].transactions) = 3

\* C3: an add_block that returns an error leaves blocks, utxo_set and
\* block_index as they were before the call.
C3_RejectionLeavesState ==
    [][(lastOp' = "add_block" /\ lastResult' # "Ok")
          => (blocks' = blocks /\ utxo_set' = utxo_set /\ block_index' = block_index)]_vars

\* add_block has validated a block and failed while applying it
C3_Witness ==
    /\ lastOp = "add_block"
    /\ lastResult = "UtxoNotFound"
    /\ lastStage = "apply_to_utxo_set"

\* C4: the UTXO set holds no OutPoint that an input of a transaction of an
\* accepted block has consumed.
C4_NoConsumedOutPoint ==
    \A h \in 1..Len(blocks) :
        DOMAIN utxo_set \cap SpentBy(blocks[h].transactions) = {}

\* C5: once add_block has accepted a block B at height h, the UTXO set maps
\* OutPoint(hash(T), i) to output i of T with block_height h, for every
\* transaction T of B and every output index i, and every earlier entry that
\* B does not spend is still in the set.
C5_OutputsStored ==
    [][(lastOp' = "add_block" /\ lastResult' = "Ok")
          => LET B == blocks'[Len(blocks')]
                 h == Len(blocks') - 1
             IN  /\ \A t \in 1..Len(B.transactions) :
                        \A i \in 1..Len(B.transactions[t].outputs) :
                            LET o == OutPoint_new(Transaction_hash(B.transactions[t]), i - 1)
                            IN  /\ o \in DOMAIN utxo_set'
                                /\ utxo_set'[o].output = B.transactions[t].outputs[i]
                                /\ utxo_set'[o].height = h
                 /\ \A o \in DOMAIN utxo_set \ SpentBy(B.transactions) :
                        /\ o \in DOMAIN utxo_set'
                        /\ utxo_set'[o] = utxo_set[o]]_vars

\* The entry was written by a coinbase transaction: every entry is the last
\* output written by the block at its height, a coinbase output exactly when
\* that block holds its coinbase only
CreatedByCoinbase(utxo) ==
    /\ utxo.height + 1 \in 1..Len(blocks)
    /\ Len(blocks[utxo.height + 1].transactions) = 1
    /\ Transaction_is_coinbase(blocks[utxo.height + 1].transactions[1])

\* C6: no transaction of a block accepted at height h' spends an output that
\* a coinbase created at height h unless h' >= h + 100.
C6_CoinbaseMaturity ==
    [][(lastOp' = "add_block" /\ lastResult' = "Ok")
          => \A o \in SpentBy(blocks'[Len(blocks')].transactions) :
                 (o \in DOMAIN utxo_set /\ CreatedByCoinbase(utxo_set[o]))
                     => Len(blocks') - 1 >= utxo_set[o].height + COINBASE_MATURITY]_vars

\* C7: the outputs of the coinbase of every accepted block sum to
\* calculate_block_reward(h) plus the fees of the block's other transactions
\* against the UTXO set before the block, and add_block refuses any other
\* coinbase value, with InvalidBlock when the checks made before the
\* coinbase check pass.
C7_CoinbaseReward ==
    /\ [][(lastOp' = "add_block" /\ lastResult' = "Ok")
             => LET B == blocks'[Len(blocks')]
                IN  OutputTotal(B.transactions[1])
                      = Blockchain_calculate_block_reward(network_params, Len(blocks') - 1)
                        + FeeTotal(Tail(B.transactions), utxo_set)]_vars
    /\ [](\A b \in CandidateBlocks :
             LET r == Blockchain_add_block(blocks, utxo_set, block_index,
                                           network_params, b)
                 h == Blockchain_height(blocks) + 1
             IN  (/\ Len(b.transactions) >= 1
                  /\ OutputTotal(b.transactions[1])
                       # Blockchain_calculate_block_reward(network_params, h)
                         + FeeTotal(Tail(b.transactions), utxo_set))
                 => /\ r.err # "Ok"
                    /\ (/\ IsOk(Block_validate_basic(b))
                        /\ Block_size(b) <= network_params.max_block_size
                        /\ b.header.previous_hash = keccak256(blocks[Len(blocks)].header)
                        /\ Block_height(b) = Ok(h)
                        /\ b.header.difficulty
                             = Blockchain_get_next_difficulty(blocks, network_params)
                        /\ IsOk(Blockchain_calculate_total_fees(utxo_set,
                                                                Tail(b.transactions))))
                       => r.err = "InvalidBlock")

\* The tip pays its miner fees on top of the reward, and add_block has just
\* refused a block for its coinbase value
C7_Witness ==
    /\ Len(blocks) >= 2
    /\ OutputTotal(blocks[Len(blocks)].transactions[1]) > network_params.initial_reward
    /\ lastOp = "add_block"
    /\ lastResult = "InvalidBlock"
    /\ lastMsg = "Invalid coinbase reward"

\* C8: for every non-coinbase transaction T of an accepted block, the values
\* of the UTXOs that T's inputs name in the set before the block sum to at
\* least the sum of T's output values.
C8_InputsCoverOutputs ==
    [][(lastOp' = "add_block" /\ lastResult' = "Ok")
          => LET B == blocks'[Len(blocks')]
             IN  \A t \in 2..Len(B.transactions) :
                     /\ \A i \in 1..Len(B.transactions[t].inputs) :
                            B.transactions[t].inputs[i].previous_output \in DOMAIN utxo_set
                     /\ ReferencedValue(B.transactions[t], utxo_set)
                          >= OutputTotal(B.transactions[t])]_vars

\* add_block has accepted a block with a transaction that pays and returns
\* change
C8_Witness ==
    /\ Accepted
    /\ \E t \in 2..Len(blocks[Len(blocks)].transactions) :
           Len(blocks[Len(blocks)].transactions[t].outputs) = 2

\* C9: the block that mine_next_block returns for transactions that each pass
\* validate_transaction is accepted by add_block on the same chain state, and
\* the chain height grows by exactly 1.
C9_MinedBlockAccepted ==
    (lastOp = "mine_next_block" /\ lastResult = "Ok")
        => LET r == Blockchain_add_block(blocks, utxo_set, block_index,
                                         network_params, mined.block)
           IN  /\ r.err = "Ok"
               /\ Blockchain_height(r.blocks) = Blockchain_height(blocks) + 1

\* C10: with a balance of from_script of at least amount + fee,
\* create_transaction returns a transaction that passes validate_transaction,
\* whose inputs name stored UTXOs of from_script, whose output 0 pays amount
\* to to_script, which has a change output to from_script exactly when the
\* change is positive, and whose fee is the requested one; with a lower
\* balance it returns InsufficientFunds.
C10_CreateTransaction ==
    \A from_script \in Scripts, to_script \in Scripts,
       amount \in Amounts, fee \in Fees, order \in Orders(DOMAIN utxo_set) :
        LET r == Blockchain_create_transaction(utxo_set, order, from_script,
                                               to_script, amount, fee)
            tx == r.val
            change == ReferencedValue(tx, utxo_set) - amount - fee
        IN  IF Blockchain_get_balance(utxo_set, from_script) >= amount + fee
            THEN /\ IsOk(r)
                 /\ IsOk(Blockchain_validate_transaction(utxo_set, tx))
                 /\ \A i \in 1..Len(tx.inputs) :
                        /\ tx.inputs[i].previous_output \in DOMAIN utxo_set
                        /\ utxo_set[tx.inputs[i].previous_output].output.script_pubkey
                             = from_script
                 /\ tx.outputs[1] = TxOutput_new(amount, to_script)
                 /\ IF change > 0
                    THEN /\ Len(tx.outputs) = 2
                         /\ tx.outputs[2] = TxOutput_new(change, from_script)
                    ELSE Len(tx.outputs) = 1
                 /\ ReferencedValue(tx, utxo_set) - OutputTotal(tx) = fee
            ELSE r.err = "InsufficientFunds"

----------------------------------------------------------------------------
(* bond-core/src/mining.rs: one mine_block call on a Miner, thread by       *)
(* thread.  Every access to the shared flag and to the result slot is one   *)
(* step.  stop_mining and a second mine_block call on the same Miner touch  *)
(* this call through the shared flag only.                                  *)

TIMESTAMP_REFRESH == 100000

\* config.difficulty of the miners: one that the first nonces meet, one that
\* only the last nonce a worker tries meets, one that no nonce meets
MineDifficulties == {1, 4, 5}

\* Miner::new(config) followed by miner.mine_block(Hash256::zero(), vec![], 0,
\* 5000) up to the call of mine_header_parallel
MinerInit ==
    /\ BondIdle /\ RetargetIdle /\ AevumIdle /\ RestIdle
    /\ is_mining = FALSE
    /\ result = None
    /\ workers = <<>>
    /\ other_call = "idle"
    /\ tried = {}
    /\ \E threads \in 1..MaxThreads, difficulty \in MineDifficulties :
        LET coinbase == Transaction_coinbase(0, INITIAL_REWARD, Script1)
            all_transactions == <<coinbase>>
            merkle_root == calculate_merkle_root(all_transactions)
            header == BlockHeader_new(1, ZeroHash, merkle_root, 0, difficulty, 0)
        IN  caller = [pc |-> "start", threads |-> threads, header |-> header,
                      transactions |-> all_transactions, returned |-> None]

\* mine_header_parallel: is_mining.store(true)
StartMining ==
    /\ caller.pc = "start"
    /\ is_mining' = TRUE
    /\ caller' = [caller EXCEPT !.pc = "spawn"]
    /\ UNCHANGED <<result, workers, other_call, tried, bondVars, retargetVars, aevumVars, restVars>>

\* mine_header_parallel: thread::spawn of the next worker, which enters its
\* for loop over start_nonce..end_nonce
SpawnWorker ==
    /\ caller.pc = "spawn"
    /\ LET thread_id == Len(workers)
           range == NonceRange(thread_id, caller.threads)
           start_nonce == thread_id * (MaxNonce \div caller.threads)
       IN  /\ workers' = Append(workers,
                  [pc |-> IF range = {} THEN "done" ELSE "load_flag",
                   header |-> caller.header, nonce |-> start_nonce,
                   range |-> range, attempts |-> 0])
           /\ caller' = [caller EXCEPT
                  !.pc = IF thread_id + 1 = caller.threads THEN "join" ELSE "spawn"]
    /\ UNCHANGED <<is_mining, result, other_call, tried, bondVars, retargetVars, aevumVars, restVars>>

\* mine_header_range: if !is_mining.load() { break }
LoadFlag(i) ==
    /\ workers[i].pc = "load_flag"
    /\ workers' = [workers EXCEPT ![i].pc = IF is_mining THEN "lock_result" ELSE "done"]
    /\ UNCHANGED <<is_mining, result, caller, other_call, tried,
                   bondVars, retargetVars, aevumVars, restVars>>

\* mine_header_range that hashes on without looking at the result slot
LockResultSkipped(i) ==
    /\ workers[i].pc = "lock_result"
    /\ workers' = [workers EXCEPT ![i].pc = "hash"]
    /\ UNCHANGED <<is_mining, result, caller, other_call, tried,
                   bondVars, retargetVars, aevumVars, restVars>>

\* mine_header_range: if result.lock().unwrap().is_some() { break }
LockResult(i) ==
    /\ workers[i].pc = "lock_result"
    /\ workers' = [workers EXCEPT ![i].pc = IF result # None THEN "done" ELSE "hash"]
    /\ UNCHANGED <<is_mining, result, caller, other_call, tried,
                   bondVars, retargetVars, aevumVars, restVars>>

\* mine_header_range: header.nonce = nonce, attempts += 1, the hash and its
\* test; on a miss the periodic timestamp refresh and the next nonce
HashNonce(i) ==
    /\ workers[i].pc = "hash"
    /\ LET w == workers[i]
           header == [w.header EXCEPT !.nonce = w.nonce]
           attempts == w.attempts + 1
           hash == BlockHeader_hash(header)
       IN  /\ tried' = tried \cup {w.nonce}
           /\ IF Hash256_meets_difficulty(hash, header.difficulty)
              THEN workers' = [workers EXCEPT ![i] =
                       [w EXCEPT !.pc = "store_flag", !.header = header,
                                 !.attempts = attempts]]
              ELSE \E now \in (IF attempts % TIMESTAMP_REFRESH = 0 THEN Times ELSE {0}) :
                       workers' = [workers EXCEPT ![i] =
                           [w EXCEPT
                              !.pc = IF w.nonce + 1 \in w.range THEN "load_flag" ELSE "done",
                              !.header = IF attempts % TIMESTAMP_REFRESH = 0
                                         THEN [header EXCEPT !.timestamp = now]
                                         ELSE header,
                              !.nonce = w.nonce + 1,
                              !.attempts = attempts]]
    /\ UNCHANGED <<is_mining, result, caller, other_call, bondVars, retargetVars, aevumVars, restVars>>

\* mine_header_range: is_mining.store(false) after a hit
StoreFlag(i) ==
    /\ workers[i].pc = "store_flag"
    /\ is_mining' = FALSE
    /\ workers' = [workers EXCEPT ![i].pc = "publish"]
    /\ UNCHANGED <<result, caller, other_call, tried, bondVars, retargetVars, aevumVars, restVars>>

\* mine_header_range: *result.lock().unwrap() = Some(mining_result); break
Publish(i) ==
    /\ workers[i].pc = "publish"
    /\ result' = [block |-> Block_new(workers[i].header, caller.transactions),
                  hash |-> BlockHeader_hash(workers[i].header),
                  nonce |-> workers[i].nonce,
                  attempts |-> workers[i].attempts]
    /\ workers' = [workers EXCEPT ![i].pc = "done"]
    /\ UNCHANGED <<is_mining, caller, other_call, tried, bondVars, retargetVars, aevumVars, restVars>>

\* mine_header_parallel: every handle joined, then
\* result.lock().unwrap().take().ok_or(NonceNotFound)
Join ==
    /\ caller.pc = "join"
    /\ \A i \in 1..Len(workers) : workers[i].pc = "done"
    /\ caller' = [caller EXCEPT
           !.pc = "returned",
           !.returned = IF result = None THEN Err("NonceNotFound", "") ELSE Ok(result)]
    /\ result' = None
    /\ UNCHANGED <<is_mining, workers, other_call, tried, bondVars, retargetVars, aevumVars, restVars>>

\* miner.stop_mining() from another thread while the call runs
StopMining ==
    /\ caller.pc \in {"spawn", "join"}
    /\ is_mining' = FALSE
    /\ UNCHANGED <<result, workers, caller, other_call, tried,
                   bondVars, retargetVars, aevumVars, restVars>>

\* A second mine_block on the same Miner: its is_mining.store(true) ...
OtherMineStart ==
    /\ other_call = "idle"
    /\ is_mining' = TRUE
    /\ other_call' = "mining"
    /\ UNCHANGED <<result, workers, caller, tried, bondVars, retargetVars, aevumVars, restVars>>

\* ... and the is_mining.store(false) of its worker that found a nonce
OtherMineFound ==
    /\ other_call = "mining"
    /\ is_mining' = FALSE
    /\ other_call' = "done"
    /\ UNCHANGED <<result, workers, caller, tried, bondVars, retargetVars, aevumVars, restVars>>

WorkerStep(i) ==
    /\ i \in 1..Len(workers)
    /\ (LoadFlag(i) \/ LockResult(i) \/ HashNonce(i) \/ StoreFlag(i) \/ Publish(i))

MinerNext ==
    \/ StartMining
    \/ SpawnWorker
    \/ \E i \in 1..MaxThreads : WorkerStep(i)
    \/ Join
    \/ StopMining
    \/ OtherMineStart
    \/ OtherMineFound

MinerSpec == MinerInit /\ [][MinerNext]_vars

\* The scheduler runs every thread that can take a step
MinerFairSpec ==
    /\ MinerSpec
    /\ WF_vars(StartMining \/ SpawnWorker \/ Join)
    /\ \A i \in 1..MaxThreads : WF_vars(WorkerStep(i))

\* C11: whatever the interleaving of the workers, of stop_mining and of a
\* second mine_block on the same Miner, mine_block returns NonceNotFound only
\* if every nonce of the u64 space 0..u64::MAX was tried by some worker and
\* none gave a hash that meets the difficulty.
C11_NonceNotFoundOnlyIfExhausted ==
    (caller.pc = "returned" /\ caller.returned.err = "NonceNotFound")
        => \A n \in 0..MaxNonce :
               /\ n \in tried
               /\ ~Hash256_meets_difficulty(
                      BlockHeader_hash([caller.header EXCEPT !.nonce = n]),
                      caller.header.difficulty)

\* C12: a worker that has found a nonce clears the flag and publishes, and the
\* call then returns Ok; once a result is published no worker starts another
\* hash; the call returns, in particular whenever the range of some worker
\* holds a solution.
C12_SearchTerminates ==
    /\ (\E i \in 1..Len(workers) : workers[i].pc \in {"store_flag", "publish"})
           ~> (caller.pc = "returned" /\ IsOk(caller.returned))
    /\ [][\A i \in 1..Len(workers) :
              (result # None /\ workers[i].pc # "hash") => workers'[i].pc # "hash"]_vars
    /\ <>(caller.pc = "returned")
    /\ [](caller.pc = "returned" =>
              \A i \in 1..Len(workers) : workers[i].pc = "done")

\* The call has returned Ok with two workers, one of which left its loop
\* with nonces of its range untried
C12_Witness ==
    /\ caller.pc = "returned"
    /\ IsOk(caller.returned)
    /\ Len(workers) >= 2
    /\ \E i \in 1..Len(workers) :
           /\ workers[i].nonce \in workers[i].range
           /\ workers[i].nonce # caller.returned.val.nonce

----------------------------------------------------------------------------
(* bond-core/src/mining.rs: DifficultyAdjuster on its own *)

MaxWindow == 3       \* calculate_new_difficulty is handed 0..MaxWindow blocks

\* Timestamps of the blocks handed in, in seconds
Stamps == {0, 1, 3, 8}

\* target_block_time and adjustment_period of DifficultyAdjuster::new
TargetTimes == {0, 1, 2}
Periods == 0..MaxWindow

\* current_difficulty: around 1, around the cap of 32 and beyond it
CurrentDifficulties == {0, 1, 2, 3, 4, 5, 30, 31, 32, 33, 35, 36, 40}

\* Blocks that carry the given timestamps
StampedBlocks(stamps) ==
    [i \in 1..Len(stamps) |->
        Block_new(BlockHeader_new(1, ZeroHash, ZeroHash, stamps[i], 1, 0), <<>>)]

\* DifficultyAdjuster::new(target_block_time, adjustment_period) and the
\* arguments of one call of calculate_new_difficulty, not yet made
RetargetInit ==
    /\ BondIdle /\ MinerIdle /\ AevumIdle /\ RestIdle
    /\ \E target_block_time \in TargetTimes, adjustment_period \in Periods,
          current_difficulty \in CurrentDifficulties, n \in 0..MaxWindow :
        \E stamps \in [1..n -> Stamps] :
            adjusted = [target_block_time |-> target_block_time,
                        adjustment_period |-> adjustment_period,
                        current_difficulty |-> current_difficulty,
                        blocks |-> StampedBlocks(stamps),
                        result |-> None]

\* adjuster.calculate_new_difficulty(current_difficulty, &blocks)
CalculateNewDifficulty ==
    /\ adjusted.result = None
    /\ adjusted' = [adjusted EXCEPT !.result =
                        DifficultyAdjuster_calculate_new_difficulty(
                            adjusted.target_block_time, adjusted.adjustment_period,
                            adjusted.current_difficulty, adjusted.blocks)]
    /\ UNCHANGED <<bondVars, minerVars, aevumVars, restVars>>

RetargetNext == CalculateNewDifficulty

RetargetSpec == RetargetInit /\ [][RetargetNext]_vars

\* The time between the first and the last block of the adjustment window
WindowTime(blks, period) ==
    blks[Len(blks)].header.timestamp - blks[Len(blks) - period + 1].header.timestamp

----------------------------------------------------------------------------
(* aevum-core/src/placeholder.rs *)

\* HashMap::insert
MapInsert(map, key, value) == (key :> value) @@ map

\* AccountState::new (code_hash and storage_root stay None throughout)
AccountState_new(balance) == [nonce |-> 0, balance |-> balance]

AccountState_has_sufficient_balance(self, amount) == self.balance >= amount

\* A debit that leaves the nonce as it was
AccountState_transfer_same_nonce(self, amount) ==
    IF ~AccountState_has_sufficient_balance(self, amount)
    THEN [result |-> Err("InsufficientFunds", ""), self |-> self]
    ELSE [result |-> Ok(0), self |-> [self EXCEPT !.balance = @ - amount]]

\* AccountState::transfer: the result and the account afterwards
AccountState_transfer(self, amount) ==
    IF ~AccountState_has_sufficient_balance(self, amount)
    THEN [result |-> Err("InsufficientFunds", ""), self |-> self]
    ELSE [result |-> Ok(0),
          self |-> [self EXCEPT !.balance = @ - amount, !.nonce = @ + 1]]

AccountState_receive(self, amount) == [self EXCEPT !.balance = @ + amount]

\* ValidatorInfo::new
ValidatorInfo_new(public_key, stake_amount) ==
    [public_key |-> public_key, stake_amount |-> stake_amount,
     delegator_count |-> 0, is_active |-> FALSE, activation_epoch |-> 0]

\* ValidatorInfo::remove_stake: the result and the validator afterwards
ValidatorInfo_remove_stake(self, amount) ==
    IF self.stake_amount < amount
    THEN [result |-> Err("InsufficientFunds", ""), self |-> self]
    ELSE [result |-> Ok(0), self |-> [self EXCEPT !.stake_amount = @ - amount]]

\* AevumState::new
AevumState_new ==
    [accounts |-> <<>>, validators |-> <<>>, current_epoch |-> 0, block_height |-> 0]

AevumState_create_account(self, address, initial_balance) ==
    [self EXCEPT !.accounts = MapInsert(@, address, AccountState_new(initial_balance))]

\* A transfer that creates the destination account before it looks at the
\* source account
AevumState_transfer_eager(self, from, to, amount) ==
    LET with_to == IF to \in DOMAIN self.accounts THEN self
                   ELSE AevumState_create_account(self, to, 0)
    IN  IF from \notin DOMAIN self.accounts
        THEN [result |-> Err("InvalidTransaction", "Conta de origem nao encontrada"),
              self |-> with_to]
        ELSE LET debit == AccountState_transfer(with_to.accounts[from], amount)
             IN  IF ~IsOk(debit.result) THEN [result |-> debit.result, self |-> with_to]
                 ELSE LET debited == [with_to EXCEPT !.accounts[from] = debit.self]
                      IN  [result |-> Ok(0),
                           self |-> [debited EXCEPT !.accounts[to] =
                                         AccountState_receive(@, amount)]]

\* AevumState::transfer: the result and the state afterwards
AevumState_transfer(self, from, to, amount) ==
    IF from \notin DOMAIN self.accounts
    THEN [result |-> Err("InvalidTransaction", "Conta de origem nao encontrada"),
          self |-> self]
    ELSE LET debit == AccountState_transfer(self.accounts[from], amount)
         IN  IF ~IsOk(debit.result) THEN [result |-> debit.result, self |-> self]
             ELSE LET debited == [self EXCEPT !.accounts[from] = debit.self]
                      with_to == IF to \in DOMAIN debited.accounts THEN debited
                                 ELSE AevumState_create_account(debited, to, 0)
                  IN  [result |-> Ok(0),
                       self |-> [with_to EXCEPT !.accounts[to] =
                                     AccountState_receive(@, amount)]]

\* AevumState::register_validator: the result and the state afterwards
AevumState_register_validator(self, validator_key, stake_amount) ==
    IF validator_key \in DOMAIN self.validators
    THEN [result |-> Err("InvalidTransaction", "Validador ja registrado"), self |-> self]
    ELSE [result |-> Ok(0),
          self |-> [self EXCEPT !.validators =
                        MapInsert(@, validator_key,
                                  ValidatorInfo_new(validator_key, stake_amount))]]

AevumState_advance_epoch(self) == [self EXCEPT !.current_epoch = @ + 1]

----------------------------------------------------------------------------
(* Accounts: AevumState::create_account and AevumState::transfer *)

MaxBalance == 1300   \* no account is credited beyond MaxBalance
MaxAccountNonce == 1 \* no account sends more than MaxAccountNonce transfers

Addresses == {keccak256("addr1"), keccak256("addr2"), keccak256("addr3")}
InitialBalances == {0, 1000}
TransferAmounts == {0, 600}

AccountInit ==
    /\ BondIdle /\ MinerIdle /\ RetargetIdle /\ RestIdle
    /\ state = AevumState_new
    /\ engine = None
    /\ outcome = None

\* state.create_account(address, initial_balance)
CreateAccount ==
    /\ \E address \in Addresses, initial_balance \in InitialBalances :
        /\ state' = AevumState_create_account(state, address, initial_balance)
        /\ outcome' = [op |-> "create_account", address |-> address,
                       initial_balance |-> initial_balance]
    /\ UNCHANGED <<bondVars, minerVars, retargetVars, restVars, engine>>

\* state.transfer(from, to, amount)
Transfer ==
    /\ \E from \in Addresses, to \in Addresses, amount \in TransferAmounts :
        LET r == AevumState_transfer(state, from, to, amount)
        IN  /\ \A a \in DOMAIN r.self.accounts :
                /\ r.self.accounts[a].balance <= MaxBalance
                /\ r.self.accounts[a].nonce <= MaxAccountNonce
            /\ state' = r.self
            /\ outcome' = [op |-> "transfer", from |-> from, to |-> to,
                           amount |-> amount, result |-> r.result]
    /\ UNCHANGED <<bondVars, minerVars, retargetVars, restVars, engine>>

AccountNext == CreateAccount \/ Transfer

AccountSpec == AccountInit /\ [][AccountNext]_vars

\* C20: a transfer whose sender account does not exist, or holds less than
\* the amount, returns an error and leaves the whole state as it was: no
\* balance debited, no nonce changed, no recipient account created.
C20_FailedTransferAtomic ==
    [][(/\ outcome'.op = "transfer"
        /\ \/ outcome'.from \notin DOMAIN state.accounts
           \/ state.accounts[outcome'.from].balance < outcome'.amount)
       => /\ ~IsOk(outcome'.result)
          /\ state' = state]_vars

\* A transfer was refused for lack of funds and its recipient does not exist
C20_Witness ==
    /\ outcome # None
    /\ outcome.op = "transfer"
    /\ outcome.result.err = "InsufficientFunds"
    /\ outcome.from \in DOMAIN state.accounts
    /\ outcome.to \notin DOMAIN state.accounts

----------------------------------------------------------------------------
(* aevum-core/src/consensus.rs *)

SLOT_TIME == 3
SLASH_PERCENTAGE == 10

\* DposConfig::default
DposConfig_default ==
    [max_validators |-> 21, min_validator_stake |-> 1000,
     epoch_length |-> 2160, unstake_delay |-> 7]

\* DposEngine::new
DposEngine_new(config) ==
    [config |-> config, validator_performance |-> <<>>, current_schedule |-> <<>>,
     next_slot |-> 0, epoch_start_time |-> 0]

\* A sort step that keeps the candidates in the order they were collected
InsertAtEnd(sorted, candidate) == Append(sorted, candidate)

\* One step of candidates.sort_by(|a, b| b.1.cmp(&a.1)): the sort is stable,
\* so a candidate goes behind every candidate whose stake is not smaller
RECURSIVE InsertByStake(_, _)
InsertByStake(sorted, candidate) ==
    IF sorted = <<>> THEN <<candidate>>
    ELSE IF Head(sorted)[2] >= candidate[2]
         THEN <<Head(sorted)>> \o InsertByStake(Tail(sorted), candidate)
         ELSE <<candidate>> \o sorted

RECURSIVE SortByStake(_, _)
SortByStake(sorted, candidates) ==
    IF candidates = <<>> THEN sorted
    ELSE SortByStake(InsertByStake(sorted, Head(candidates)), Tail(candidates))

\* The candidates of elect_validators, collected in the order in which the
\* HashMap hands out its entries
RECURSIVE Candidates(_, _, _)
Candidates(self, st, order) ==
    IF order = <<>> THEN <<>>
    ELSE LET validator_info == st.validators[Head(order)]
             rest == Candidates(self, st, Tail(order))
         IN  IF validator_info.stake_amount >= self.config.min_validator_stake
             THEN <<<<Head(order), validator_info.stake_amount>>>> \o rest
             ELSE rest

\* DposEngine::elect_validators; order is the iteration order of
\* state.validators.  Neither the engine nor the state is written.
DposEngine_elect_validators(self, st, order) ==
    LET candidates == SortByStake(<<>>, Candidates(self, st, order))
        taken == Min(self.config.max_validators, Len(candidates))
        elected == [i \in 1..taken |-> candidates[i][1]]
    IN  IF elected = <<>>
        THEN [Err("InvalidBlock", "Nenhum validador elegivel encontrado") EXCEPT !.val = <<>>]
        ELSE Ok(elected)

----------------------------------------------------------------------------
(* Election: AevumState::register_validator and DposEngine::elect_validators *)

ValidatorKeys ==
    {keccak256("validator1"), keccak256("validator2"), keccak256("validator3")}
Stakes == {500, 1000, 2000}

ElectionConfigs ==
    {[DposConfig_default EXCEPT !.max_validators = m] : m \in {0, 1, 2, 21}}

ElectionInit ==
    /\ BondIdle /\ MinerIdle /\ RetargetIdle /\ RestIdle
    /\ state = AevumState_new
    /\ \E config \in ElectionConfigs : engine = DposEngine_new(config)
    /\ outcome = None

\* state.register_validator(validator_key, stake_amount)
RegisterValidator ==
    /\ \E validator_key \in ValidatorKeys, stake_amount \in Stakes :
        LET r == AevumState_register_validator(state, validator_key, stake_amount)
        IN  /\ state' = r.self
            /\ outcome' = [op |-> "register_validator", validator_key |-> validator_key,
                           stake_amount |-> stake_amount, result |-> r.result]
    /\ UNCHANGED <<bondVars, minerVars, retargetVars, restVars, engine>>

\* engine.elect_validators(&state)
ElectValidators ==
    /\ \E order \in Orders(DOMAIN state.validators) :
        outcome' = [op |-> "elect_validators",
                    result |-> DposEngine_elect_validators(engine, state, order)]
    /\ UNCHANGED <<bondVars, minerVars, retargetVars, restVars, state, engine>>

ElectionNext == RegisterValidator \/ ElectValidators

ElectionSpec == ElectionInit /\ [][ElectionNext]_vars

\* The registered validators that hold the minimum stake
Eligible(st, config) ==
    {k \in DOMAIN st.validators :
        st.validators[k].stake_amount >= config.min_validator_stake}

\* The list is the eligible validators by non-increasing stake, cut to the
\* first max_validators
ElectedFrom(st, config, elected) ==
    /\ Len(elected) = Min(config.max_validators, Cardinality(Eligible(st, config)))
    /\ \A i \in 1..Len(elected) : elected[i] \in Eligible(st, config)
    /\ \A i, j \in 1..Len(elected) :
        i < j => /\ elected[i] # elected[j]
                 /\ st.validators[elected[i]].stake_amount
                        >= st.validators[elected[j]].stake_amount
    /\ \A k \in Eligible(st, config), i \in 1..Len(elected) :
        (\A j \in 1..Len(elected) : elected[j] # k)
            => st.validators[elected[i]].stake_amount >= st.validators[k].stake_amount

\* C14 as stated: elect_validators fails iff no validator is eligible, and
\* otherwise returns the eligible validators by non-increasing stake cut to
\* max_validators; the registry is not modified.
C14_AsStated ==
    [][outcome'.op = "elect_validators" =>
        /\ state' = state
        /\ IF Eligible(state, engine.config) = {}
           THEN ~IsOk(outcome'.result)
           ELSE /\ IsOk(outcome'.result)
                /\ ElectedFrom(state, engine.config, outcome'.result.val)]_vars

\* C14: elect_validators fails iff the list cut to max_validators is empty,
\* that is iff no validator is eligible or max_validators = 0; otherwise it
\* returns the registered validators with stake_amount >= min_validator_stake
\* by non-increasing stake, cut to the first max_validators; the registry and
\* the engine are not modified.
C14_ElectionByStake ==
    [][outcome'.op = "elect_validators" =>
        /\ state' = state
        /\ engine' = engine
        /\ IF Eligible(state, engine.config) = {} \/ engine.config.max_validators = 0
           THEN outcome'.result.err = "InvalidBlock"
           ELSE /\ IsOk(outcome'.result)
                /\ ElectedFrom(state, engine.config, outcome'.result.val)]_vars

\* An election that had to leave an eligible validator out
C14_Witness ==
    /\ outcome # None
    /\ outcome.op = "elect_validators"
    /\ IsOk(outcome.result)
    /\ Len(outcome.result.val) >= 2
    /\ Len(outcome.result.val) < Cardinality(Eligible(state, engine.config))

----------------------------------------------------------------------------
(* aevum-core/src/consensus.rs: schedule and validator performance *)

\* An f64 that is the quotient of two integers, kept as <<numerator,
\* denominator>>; ValidatorPerformance::new starts at 1.0
Quotient(num, den) == <<num, den>>

\* ValidatorPerformance::new
ValidatorPerformance_new ==
    [slots_assigned |-> 0, blocks_produced |-> 0, missed_blocks |-> 0,
     approval_rate |-> Quotient(1, 1), last_active_epoch |-> 0]

\* An update that leaves approval_rate as it was
ValidatorPerformance_keep_approval_rate(self) == self

\* ValidatorPerformance::update_approval_rate
ValidatorPerformance_update_approval_rate(self) ==
    LET total_blocks == self.blocks_produced + self.missed_blocks
    IN  IF total_blocks > 0
        THEN [self EXCEPT !.approval_rate = Quotient(self.blocks_produced, total_blocks)]
        ELSE self

ValidatorPerformance_record_block_produced(self, epoch) ==
    ValidatorPerformance_update_approval_rate(
        [self EXCEPT !.blocks_produced = @ + 1, !.last_active_epoch = epoch])

ValidatorPerformance_record_missed_block(self, epoch) ==
    ValidatorPerformance_update_approval_rate(
        [self EXCEPT !.missed_blocks = @ + 1, !.last_active_epoch = epoch])

\* approval_rate < 0.5 && slots_assigned >= 10
ValidatorPerformance_should_be_slashed(self) ==
    2 * self.approval_rate[1] < self.approval_rate[2] /\ self.slots_assigned >= 10

\* A schedule that gives every slot to the first validator
FirstValidatorIndex(slot, len) == 0

\* validator_index of generate_schedule
ValidatorIndex(slot, len) == slot % len

\* DposEngine::generate_schedule: the result and the engine afterwards.
\* Slot s is element s + 1 of current_schedule.
DposEngine_generate_schedule(self, validators, epoch_start) ==
    IF validators = <<>>
    THEN [result |-> Err("InvalidBlock", "Lista de validadores vazia"), self |-> self]
    ELSE [result |-> Ok(0),
          self |-> [self EXCEPT
              !.epoch_start_time = epoch_start,
              !.next_slot = 0,
              !.current_schedule =
                  [i \in 1..self.config.epoch_length |->
                      [slot_number |-> i - 1,
                       validator |-> validators[ValidatorIndex(i - 1, Len(validators)) + 1],
                       expected_time |-> epoch_start + (i - 1) * SLOT_TIME,
                       block_produced |-> FALSE]]]]

\* DposEngine::get_current_producer
DposEngine_get_current_producer(self) ==
    IF self.next_slot >= Len(self.current_schedule) THEN None
    ELSE self.current_schedule[self.next_slot + 1].validator

\* validator_performance.entry(validator).or_insert_with(ValidatorPerformance::new)
PerformanceEntry(self, validator) ==
    IF validator \in DOMAIN self.validator_performance
    THEN self.validator_performance[validator]
    ELSE ValidatorPerformance_new

\* DposEngine::record_block_produced: the engine afterwards
DposEngine_record_block_produced(self, validator, epoch) ==
    LET performance == ValidatorPerformance_record_block_produced(
                           PerformanceEntry(self, validator), epoch)
        credited == [self EXCEPT !.validator_performance =
                         MapInsert(@, validator, performance)]
        marked == IF self.next_slot < Len(self.current_schedule)
                  THEN [credited EXCEPT
                            !.current_schedule[self.next_slot + 1].block_produced = TRUE]
                  ELSE credited
    IN  [marked EXCEPT !.next_slot = @ + 1]

\* DposEngine::record_missed_block: the engine afterwards
DposEngine_record_missed_block(self, validator, epoch) ==
    LET performance == ValidatorPerformance_record_missed_block(
                           PerformanceEntry(self, validator), epoch)
    IN  [self EXCEPT !.validator_performance = MapInsert(@, validator, performance),
                     !.next_slot = @ + 1]

\* DposEngine::should_advance_epoch
DposEngine_should_advance_epoch(self, current_time) ==
    current_time >= self.epoch_start_time + self.config.epoch_length * 3

----------------------------------------------------------------------------
(* Epochs: the schedule, the recording of blocks and the epoch counter *)

MaxEpochLength == 3  \* DposConfig.epoch_length is 0 or MaxEpochLength
MaxRecorded == 2     \* blocks recorded per validator, produced and missed
MaxEpoch == 1        \* current_epoch ranges over 0..MaxEpoch

Producers == {keccak256("validator1"), keccak256("validator2")}
ProducerLists == {<<>>} \cup [1..1 -> Producers] \cup [1..2 -> Producers]
EpochStarts == {10}
CurrentTimes == {3 * MaxEpochLength, 10 + 3 * MaxEpochLength}

EpochConfigs ==
    {[DposConfig_default EXCEPT !.epoch_length = n] : n \in {0, MaxEpochLength}}

EpochInit ==
    /\ BondIdle /\ MinerIdle /\ RetargetIdle /\ RestIdle
    /\ state = AevumState_new
    /\ \E config \in EpochConfigs : engine = DposEngine_new(config)
    /\ outcome = None

\* engine.generate_schedule(&validators, epoch_start)
GenerateSchedule ==
    /\ \E validators \in ProducerLists, epoch_start \in EpochStarts :
        LET r == DposEngine_generate_schedule(engine, validators, epoch_start)
        IN  /\ engine' = r.self
            /\ outcome' = [op |-> "generate_schedule", validators |-> validators,
                           epoch_start |-> epoch_start, result |-> r.result]
    /\ UNCHANGED <<bondVars, minerVars, retargetVars, restVars, state>>

\* The validator has fewer than MaxRecorded blocks on record
MayRecord(validator) ==
    LET performance == PerformanceEntry(engine, validator)
    IN  performance.blocks_produced + performance.missed_blocks < MaxRecorded

\* engine.record_block_produced(validator, state.current_epoch)
RecordBlockProduced ==
    /\ \E validator \in Producers :
        /\ MayRecord(validator)
        /\ engine' = DposEngine_record_block_produced(engine, validator, state.current_epoch)
        /\ outcome' = [op |-> "record_block_produced", validator |-> validator,
                       slot |-> engine.next_slot]
    /\ UNCHANGED <<bondVars, minerVars, retargetVars, restVars, state>>

\* engine.record_missed_block(validator, state.current_epoch)
RecordMissedBlock ==
    /\ \E validator \in Producers :
        /\ MayRecord(validator)
        /\ engine' = DposEngine_record_missed_block(engine, validator, state.current_epoch)
        /\ outcome' = [op |-> "record_missed_block", validator |-> validator,
                       slot |-> engine.next_slot]
    /\ UNCHANGED <<bondVars, minerVars, retargetVars, restVars, state>>

\* state.advance_epoch(), at a time at which engine.should_advance_epoch
\* answers should_advance
AdvanceEpoch ==
    /\ state.current_epoch < MaxEpoch
    /\ \E current_time \in CurrentTimes :
        outcome' = [op |-> "advance_epoch", current_time |-> current_time,
                    should_advance |-> DposEngine_should_advance_epoch(engine, current_time)]
    /\ state' = AevumState_advance_epoch(state)
    /\ UNCHANGED <<bondVars, minerVars, retargetVars, restVars, engine>>

EpochNext == GenerateSchedule \/ RecordBlockProduced \/ RecordMissedBlock \/ AdvanceEpoch

EpochSpec == EpochInit /\ [][EpochNext]_vars

\* C15: generate_schedule with a non-empty list leaves exactly epoch_length
\* slots, slot s given to validators[s mod validators.len()] with
\* expected_time = epoch_start + 3 * s and block_produced = false, and
\* next_slot = 0, so a single validator receives every slot; with an empty
\* list it fails (and leaves the engine as it was).
C15_RoundRobinSchedule ==
    [][outcome'.op = "generate_schedule" =>
        IF outcome'.validators = <<>>
        THEN ~IsOk(outcome'.result) /\ engine' = engine
        ELSE /\ IsOk(outcome'.result)
             /\ Len(engine'.current_schedule) = engine.config.epoch_length
             /\ \A s \in 0..(engine.config.epoch_length - 1) :
                 LET slot == engine'.current_schedule[s + 1]
                 IN  /\ slot.slot_number = s
                     /\ slot.validator =
                            outcome'.validators[(s % Len(outcome'.validators)) + 1]
                     /\ slot.expected_time = outcome'.epoch_start + 3 * s
                     /\ slot.block_produced = FALSE
                     /\ Len(outcome'.validators) = 1
                            => slot.validator = outcome'.validators[1]
             /\ engine'.next_slot = 0
             /\ engine'.epoch_start_time = outcome'.epoch_start]_vars

\* A schedule over two different validators has just been generated
C15_Witness ==
    /\ outcome # None
    /\ outcome.op = "generate_schedule"
    /\ Len(outcome.validators) = 2
    /\ outcome.validators[1] # outcome.validators[2]
    /\ outcome.epoch_start > 0
    /\ Len(engine.current_schedule) >= 3
    /\ engine.validator_performance # <<>>

\* C16: when record_block_produced marks a slot of the schedule as produced,
\* the validator it credits in the performance statistics is the validator
\* scheduled for that slot.
C16_ProducerIsScheduled ==
    (/\ outcome # None
     /\ outcome.op = "record_block_produced"
     /\ outcome.slot < Len(engine.current_schedule))
    => /\ engine.current_schedule[outcome.slot + 1].block_produced
       /\ outcome.validator = engine.current_schedule[outcome.slot + 1].validator

\* approval_rate lies in [0, 1], is produced / (produced + missed) when that
\* sum is positive and 1.0 when it is 0
ApprovalRateExact(performance) ==
    LET num == performance.approval_rate[1]
        den == performance.approval_rate[2]
        total == performance.blocks_produced + performance.missed_blocks
    IN  /\ den > 0 /\ 0 <= num /\ num <= den
        /\ total > 0 => num * total = performance.blocks_produced * den
        /\ total = 0 => num = den

\* C17: after any sequence of record_block_produced and record_missed_block
\* calls every validator's approval_rate lies in [0, 1] and equals
\* blocks_produced / (blocks_produced + missed_blocks) when that sum is
\* positive; a record with no recorded blocks has 1.0.
C17_ApprovalRate ==
    /\ ApprovalRateExact(ValidatorPerformance_new)
    /\ engine # None =>
        \A v \in DOMAIN engine.validator_performance :
            ApprovalRateExact(engine.validator_performance[v])

\* A validator with one produced and one missed block
C17_Witness ==
    /\ engine # None
    /\ \E v \in DOMAIN engine.validator_performance :
        /\ engine.validator_performance[v].blocks_produced = 1
        /\ engine.validator_performance[v].missed_blocks = 1
        /\ engine.validator_performance[v].approval_rate = Quotient(1, 2)

\* C18: an advance of the epoch at a time for which should_advance_epoch is
\* true increments current_epoch by exactly one and leaves a regenerated
\* schedule: epoch_length slots, none produced, next_slot = 0.
C18_AdvanceEpochRegenerates ==
    [][(outcome'.op = "advance_epoch" /\ outcome'.should_advance)
       => /\ state'.current_epoch = state.current_epoch + 1
          /\ Len(engine'.current_schedule) = engine'.config.epoch_length
          /\ \A i \in 1..Len(engine'.current_schedule) :
                ~engine'.current_schedule[i].block_produced
          /\ engine'.next_slot = 0]_vars

----------------------------------------------------------------------------
(* aevum-core/src/consensus.rs: slashing *)

\* HashMap::remove
MapRemove(map, key) == [k \in DOMAIN map \ {key} |-> map[k]]

\* The loop of apply_slashing from the given position of the list on
RECURSIVE SlashLoop(_, _, _, _)
SlashLoop(self, st, validators_to_slash, total_slashed) ==
    IF validators_to_slash = <<>>
    THEN [result |-> Ok(total_slashed), self |-> self, state |-> st]
    ELSE LET validator_key == Head(validators_to_slash)
             forgotten == [self EXCEPT !.validator_performance = MapRemove(@, validator_key)]
         IN  IF validator_key \notin DOMAIN st.validators
             THEN SlashLoop(forgotten, st, Tail(validators_to_slash), total_slashed)
             ELSE LET validator == st.validators[validator_key]
                      slash_amount == (validator.stake_amount * SLASH_PERCENTAGE) \div 100
                      removed == ValidatorInfo_remove_stake(validator, slash_amount)
                      slashed == IF removed.self.stake_amount < self.config.min_validator_stake
                                 THEN [removed.self EXCEPT !.is_active = FALSE]
                                 ELSE removed.self
                  IN  IF IsOk(removed.result)
                      THEN SlashLoop(forgotten, [st EXCEPT !.validators[validator_key] = slashed],
                                     Tail(validators_to_slash), total_slashed + slash_amount)
                      ELSE SlashLoop(forgotten, st, Tail(validators_to_slash), total_slashed)

\* DposEngine::apply_slashing: the result, the engine and the state afterwards
DposEngine_apply_slashing(self, st, validators_to_slash) ==
    SlashLoop(self, st, validators_to_slash, 0)

MaxSlashList == 2    \* apply_slashing is handed 0..MaxSlashList keys

SlashStakes == {505, 1000, 1115}
SlashLists == UNION {[1..n -> ValidatorKeys] : n \in 0..MaxSlashList}

\* Registries of validators as register_validator leaves them, some of them
\* made active through the public field is_active
SlashRegistries ==
    UNION {[registered -> [stake_amount : SlashStakes, is_active : BOOLEAN]] :
              registered \in SUBSET ValidatorKeys}

\* The state after the registrations of the registry
RegisteredState(registry) ==
    [AevumState_new EXCEPT !.validators =
        [k \in DOMAIN registry |->
            [ValidatorInfo_new(k, registry[k].stake_amount) EXCEPT
                !.is_active = registry[k].is_active]]]

\* The engine after one record_missed_block for each of the validators
RECURSIVE MissedBy(_, _)
MissedBy(self, validators) ==
    IF validators = {} THEN self
    ELSE LET v == CHOOSE v \in validators : TRUE
         IN  MissedBy(DposEngine_record_missed_block(self, v, 0), validators \ {v})

\* A registry, an engine with performance records and the list of one call of
\* apply_slashing, not yet made
SlashInit ==
    /\ BondIdle /\ MinerIdle /\ RetargetIdle /\ RestIdle
    /\ \E registry \in SlashRegistries : state = RegisteredState(registry)
    /\ \E recorded \in SUBSET ValidatorKeys :
        engine = MissedBy(DposEngine_new(DposConfig_default), recorded)
    /\ \E validators_to_slash \in SlashLists :
        outcome = [op |-> "apply_slashing", validators_to_slash |-> validators_to_slash,
                   result |-> None]

\* engine.apply_slashing(&mut state, &validators_to_slash)
ApplySlashing ==
    /\ outcome.result = None
    /\ LET r == DposEngine_apply_slashing(engine, state, outcome.validators_to_slash)
       IN  /\ state' = r.state
           /\ engine' = r.self
           /\ outcome' = [outcome EXCEPT !.result = r.result]
    /\ UNCHANGED <<bondVars, minerVars, retargetVars, restVars>>

SlashNext == ApplySlashing

SlashSpec == SlashInit /\ [][SlashNext]_vars

\* The keys of a list
Listed(list) == {list[i] : i \in DOMAIN list}

\* floor(stake_amount * 10 / 100)
TenPercent(validator) == (validator.stake_amount * 10) \div 100

RECURSIVE SumTenPercent(_, _)
SumTenPercent(validators, keys) ==
    IF keys = {} THEN 0
    ELSE LET k == CHOOSE k \in keys : TRUE
         IN  TenPercent(validators[k]) + SumTenPercent(validators, keys \ {k})

\* C19: apply_slashing deducts floor(stake_amount * 10 / 100) from each listed
\* registered validator, sets is_active = false when the remaining stake is
\* below min_validator_stake, removes the validator's performance record,
\* returns the sum of the deductions, and leaves every validator that is not
\* listed unchanged.
C19_SlashingContract ==
    [][(outcome.result = None /\ outcome'.result # None) =>
        LET listed == Listed(outcome.validators_to_slash)
            before == state.validators
            after == state'.validators
        IN  /\ DOMAIN after = DOMAIN before
            /\ \A k \in listed \cap DOMAIN before :
                /\ after[k].stake_amount = before[k].stake_amount - TenPercent(before[k])
                /\ after[k].is_active =
                       IF after[k].stake_amount < engine.config.min_validator_stake
                       THEN FALSE ELSE before[k].is_active
                /\ k \notin DOMAIN engine'.validator_performance
            /\ outcome'.result = Ok(SumTenPercent(before, listed \cap DOMAIN before))
            /\ \A k \in DOMAIN before \ listed : after[k] = before[k]]_vars

\* The sum of the balances of all accounts
RECURSIVE TotalBalance(_, _)
TotalBalance(accounts, addresses) ==
    IF addresses = {} THEN 0
    ELSE LET a == CHOOSE a \in addresses : TRUE
         IN  accounts[a].balance + TotalBalance(accounts, addresses \ {a})

\* C21: a successful transfer of amount from A to B adds exactly 1 to A's
\* nonce, takes amount from A's balance and adds it to B's, B being created
\* with balance 0 and nonce 0 first when it is absent (with A = B the balance
\* ends where it started), leaves every other account unchanged and keeps the
\* sum of all balances.
C21_TransferMovesValue ==
    [][(outcome'.op = "transfer" /\ IsOk(outcome'.result)) =>
        LET A == outcome'.from
            B == outcome'.to
            before == state.accounts
            after == state'.accounts
            B_before == IF B \in DOMAIN before THEN before[B] ELSE AccountState_new(0)
        IN  /\ A \in DOMAIN before
            /\ before[A].balance >= outcome'.amount
            /\ DOMAIN after = DOMAIN before \cup {B}
            /\ after[A].nonce = before[A].nonce + 1
            /\ IF A = B
               THEN after[A].balance = before[A].balance
               ELSE /\ after[A].balance = before[A].balance - outcome'.amount
                    /\ after[B].balance = B_before.balance + outcome'.amount
                    /\ after[B].nonce = B_before.nonce
            /\ \A other \in DOMAIN before \ {A, B} : after[other] = before[other]
            /\ TotalBalance(after, DOMAIN after) = TotalBalance(before, DOMAIN before)
            /\ state'.validators = state.validators
            /\ state'.current_epoch = state.current_epoch]_vars

\* A transfer between two accounts succeeded while a third account exists
C21_Witness ==
    /\ outcome # None
    /\ outcome.op = "transfer"
    /\ IsOk(outcome.result)
    /\ outcome.from # outcome.to
    /\ outcome.amount > 0
    /\ DOMAIN state.accounts = Addresses
    /\ state.accounts[outcome.from].nonce >= 1

----------------------------------------------------------------------------
(* aevum-core/src/transaction.rs: GovernanceProposal *)

\* GovernanceProposal::new
GovernanceProposal_new(id, proposer, title, description, voting_start, voting_period) ==
    [id |-> id, proposer |-> proposer, title |-> title, description |-> description,
     voting_start |-> voting_start, voting_end |-> voting_start + voting_period,
     yes_votes |-> 0, no_votes |-> 0, voters |-> <<>>, status |-> "Active"]

\* self.voters.contains(&voter)
Voted(self, voter) == \E i \in DOMAIN self.voters : self.voters[i] = voter

\* A vote that is counted whether or not the voter has voted before
GovernanceProposal_add_vote_again(self, voter, vote, weight) ==
    [result |-> Ok(0),
     self |-> [self EXCEPT !.yes_votes = IF vote THEN @ + weight ELSE @,
                           !.no_votes = IF vote THEN @ ELSE @ + weight,
                           !.voters = Append(@, voter)]]

\* GovernanceProposal::add_vote: the result and the proposal afterwards
GovernanceProposal_add_vote(self, voter, vote, weight) ==
    IF Voted(self, voter)
    THEN [result |-> Err("InvalidTransaction", "Usuario ja votou nesta proposta"),
          self |-> self]
    ELSE [result |-> Ok(0),
          self |-> [self EXCEPT !.yes_votes = IF vote THEN @ + weight ELSE @,
                                !.no_votes = IF vote THEN @ ELSE @ + weight,
                                !.voters = Append(@, voter)]]

\* A finalization that lets a tie pass
GovernanceProposal_finalize_tie_passes(self, current_block) ==
    IF current_block < self.voting_end THEN [returned |-> "Active", self |-> self]
    ELSE LET status == IF self.yes_votes + self.no_votes = 0 THEN "Expired"
                       ELSE IF self.yes_votes >= self.no_votes THEN "Passed"
                       ELSE "Rejected"
         IN  [returned |-> status, self |-> [self EXCEPT !.status = status]]

\* GovernanceProposal::finalize: the status returned and the proposal afterwards
GovernanceProposal_finalize(self, current_block) ==
    IF current_block < self.voting_end THEN [returned |-> "Active", self |-> self]
    ELSE LET total_votes == self.yes_votes + self.no_votes
             status == IF total_votes = 0 THEN "Expired"
                       ELSE IF self.yes_votes > self.no_votes THEN "Passed"
                       ELSE "Rejected"
         IN  [returned |-> status, self |-> [self EXCEPT !.status = status]]

----------------------------------------------------------------------------
(* Governance: votes on one proposal and its finalization *)

MaxVotingPeriod == 2 \* voting_period is 0 or MaxVotingPeriod, blocks 0..MaxVotingPeriod + 1

Voters == {keccak256("voter1"), keccak256("voter2"), keccak256("voter3")}
Weights == {0, 1, 2}

\* outcome.accepted lists the weights of the votes that add_vote accepted
GovernanceInit ==
    /\ BondIdle /\ MinerIdle /\ RetargetIdle
    /\ state = None /\ engine = None
    /\ mempool = None /\ vm = None /\ node = None
    /\ \E voting_period \in {0, MaxVotingPeriod} :
        proposal = GovernanceProposal_new(1, keccak256("proposer"), "Test Proposal",
                                          "A test governance proposal", 1, voting_period)
    /\ outcome = [op |-> "new", accepted |-> <<>>]

\* proposal.add_vote(voter, vote, weight)
AddVote ==
    /\ \E voter \in Voters, vote \in BOOLEAN, weight \in Weights :
        LET r == GovernanceProposal_add_vote(proposal, voter, vote, weight)
        IN  /\ Len(r.self.voters) <= Cardinality(Voters)
            /\ proposal' = r.self
            /\ outcome' = [op |-> "add_vote", voter |-> voter, vote |-> vote,
                           weight |-> weight, result |-> r.result,
                           accepted |-> IF IsOk(r.result)
                                        THEN Append(outcome.accepted, weight)
                                        ELSE outcome.accepted]
    /\ UNCHANGED <<bondVars, minerVars, retargetVars, state, engine, mempool, vm, node>>

\* proposal.finalize(current_block)
Finalize ==
    /\ \E current_block \in 0..(MaxVotingPeriod + 2) :
        LET r == GovernanceProposal_finalize(proposal, current_block)
        IN  /\ proposal' = r.self
            /\ outcome' = [op |-> "finalize", current_block |-> current_block,
                           returned |-> r.returned, accepted |-> outcome.accepted]
    /\ UNCHANGED <<bondVars, minerVars, retargetVars, state, engine, mempool, vm, node>>

GovernanceNext == AddVote \/ Finalize

GovernanceSpec == GovernanceInit /\ [][GovernanceNext]_vars

\* C22: add_vote by a voter already in voters is rejected with
\* InvalidTransaction and leaves yes_votes, no_votes and voters unchanged; so
\* each voter appears at most once in voters and yes_votes + no_votes is the
\* sum of the weights of the accepted votes.
C22_OneVotePerVoter ==
    /\ [][(outcome'.op = "add_vote" /\ Voted(proposal, outcome'.voter))
          => /\ outcome'.result.err = "InvalidTransaction"
             /\ proposal' = proposal]_vars
    /\ [](proposal # None =>
            /\ \A i, j \in DOMAIN proposal.voters :
                i # j => proposal.voters[i] # proposal.voters[j]
            /\ Len(proposal.voters) = Len(outcome.accepted)
            /\ proposal.yes_votes + proposal.no_votes = SumSeq(outcome.accepted))

\* A second vote of a voter was rejected after two votes were counted
C22_Witness ==
    /\ proposal # None
    /\ outcome.op = "add_vote"
    /\ outcome.result.err = "InvalidTransaction"
    /\ outcome.weight > 0
    /\ Len(proposal.voters) = 2
    /\ proposal.yes_votes > 0 /\ proposal.no_votes > 0

\* C23: finalize(current_block) returns Active and leaves the proposal as it
\* is while current_block < voting_end; from voting_end on it sets and returns
\* Expired when yes_votes + no_votes = 0, Passed when yes_votes > no_votes and
\* Rejected otherwise, a tie included.
C23_FinalizeByTally ==
    [][outcome'.op = "finalize" =>
        IF outcome'.current_block < proposal.voting_end
        THEN outcome'.returned = "Active" /\ proposal' = proposal
        ELSE /\ proposal'.status =
                    IF proposal.yes_votes + proposal.no_votes = 0 THEN "Expired"
                    ELSE IF proposal.yes_votes > proposal.no_votes THEN "Passed"
                    ELSE "Rejected"
             /\ outcome'.returned = proposal'.status
             /\ proposal' = [proposal EXCEPT !.status = proposal'.status]]_vars

\* A proposal with a tie of counted votes was finalized as Rejected
C23_Witness ==
    /\ proposal # None
    /\ outcome.op = "finalize"
    /\ outcome.returned = "Rejected"
    /\ proposal.status = "Rejected"
    /\ proposal.yes_votes = proposal.no_votes
    /\ proposal.yes_votes > 0

----------------------------------------------------------------------------
(* aevum-core/src/transaction.rs: AevumTransaction and AevumMempool *)

\* AevumTransaction::validate_basic
AevumTransaction_validate_basic(self) ==
    LET t == self.tx_type
    IN  IF self.gas_limit = 0
        THEN Err("InvalidTransaction", "Gas limit deve ser maior que zero")
        ELSE IF self.gas_price = 0
        THEN Err("InvalidTransaction", "Gas price deve ser maior que zero")
        ELSE IF t.kind = "Transfer" /\ t.amount = 0
        THEN Err("InvalidTransaction", "Valor de transferencia deve ser maior que zero")
        ELSE IF t.kind = "Stake" /\ t.amount = 0
        THEN Err("InvalidTransaction", "Valor de stake deve ser maior que zero")
        ELSE IF t.kind = "Delegate" /\ t.amount = 0
        THEN Err("InvalidTransaction", "Valor de delegacao deve ser maior que zero")
        ELSE IF t.kind = "CreateProposal" /\ t.title = ""
        THEN Err("InvalidTransaction", "Titulo da proposta nao pode estar vazio")
        ELSE IF t.kind = "CreateProposal" /\ t.description = ""
        THEN Err("InvalidTransaction", "Descricao da proposta nao pode estar vazia")
        ELSE IF t.kind = "CreateProposal" /\ t.voting_period = 0
        THEN Err("InvalidTransaction", "Periodo de votacao deve ser maior que zero")
        ELSE Ok(0)

AevumTransaction_is_signed(self) == self.signature # None

\* AevumMempool::new
AevumMempool_new(max_size, min_gas_price) ==
    [pending |-> <<>>, max_size |-> max_size, min_gas_price |-> min_gas_price]

\* self.pending.values().map(|v| v.len()).sum()
RECURSIVE TotalTxs(_, _)
TotalTxs(pending, senders) ==
    IF senders = {} THEN 0
    ELSE LET s == CHOOSE s \in senders : TRUE
         IN  Len(pending[s]) + TotalTxs(pending, senders \ {s})

\* A pool that is full only beyond max_size
PoolOverfull(total_txs, max_size) == total_txs > max_size

\* total_txs >= self.max_size
PoolFull(total_txs, max_size) == total_txs >= max_size

\* A sort that leaves the list as it is
KeepOrder(txs) == txs

\* One step of sender_txs.sort_by_key(|tx| tx.nonce), a stable sort
RECURSIVE InsertByNonce(_, _)
InsertByNonce(sorted, tx) ==
    IF sorted = <<>> THEN <<tx>>
    ELSE IF Head(sorted).nonce <= tx.nonce
         THEN <<Head(sorted)>> \o InsertByNonce(Tail(sorted), tx)
         ELSE <<tx>> \o sorted

RECURSIVE SortLoop(_, _)
SortLoop(sorted, txs) ==
    IF txs = <<>> THEN sorted ELSE SortLoop(InsertByNonce(sorted, Head(txs)), Tail(txs))

\* sender_txs.sort_by_key(|tx| tx.nonce)
SortByNonce(txs) == SortLoop(<<>>, txs)

\* AevumMempool::add_transaction: the result and the pool afterwards
AevumMempool_add_transaction(self, tx) ==
    LET basic == AevumTransaction_validate_basic(tx)
        total_txs == TotalTxs(self.pending, DOMAIN self.pending)
        sender_txs == IF tx.from \in DOMAIN self.pending THEN self.pending[tx.from] ELSE <<>>
    IN  IF ~IsOk(basic) THEN [result |-> basic, self |-> self]
        ELSE IF ~AevumTransaction_is_signed(tx)
        THEN [result |-> Err("InvalidTransaction", "Transacao deve estar assinada"),
              self |-> self]
        ELSE IF tx.gas_price < self.min_gas_price
        THEN [result |-> Err("InvalidTransaction", "Preco de gas abaixo do minimo"),
              self |-> self]
        ELSE IF PoolFull(total_txs, self.max_size)
        THEN [result |-> Err("InvalidTransaction", "Mempool cheio"), self |-> self]
        ELSE [result |-> Ok(0),
              self |-> [self EXCEPT !.pending =
                            MapInsert(@, tx.from, SortByNonce(Append(sender_txs, tx)))]]

\* The position of the first transaction with the nonce, 0 when there is none
RECURSIVE Position(_, _, _)
Position(txs, nonce, i) ==
    IF i > Len(txs) THEN 0
    ELSE IF txs[i].nonce = nonce THEN i ELSE Position(txs, nonce, i + 1)

\* Vec::remove
RemoveAt(txs, pos) == [i \in 1..(Len(txs) - 1) |-> IF i < pos THEN txs[i] ELSE txs[i + 1]]

\* AevumMempool::remove_transaction: the transaction returned and the pool afterwards
AevumMempool_remove_transaction(self, from, nonce) ==
    IF from \notin DOMAIN self.pending THEN [removed |-> None, self |-> self]
    ELSE LET pos == Position(self.pending[from], nonce, 1)
         IN  IF pos = 0 THEN [removed |-> None, self |-> self]
             ELSE [removed |-> self.pending[from][pos],
                   self |-> [self EXCEPT !.pending[from] = RemoveAt(@, pos)]]

----------------------------------------------------------------------------
(* Mempool: add_transaction and remove_transaction on one AevumMempool *)

MaxPoolSize == 2     \* max_size ranges over 0..MaxPoolSize
MaxTxNonce == 2      \* transaction nonces range over 0..MaxTxNonce

Senders == {keccak256("from"), keccak256("sender2")}

\* Some(signature) as AevumTransaction::sign leaves it
SimSig == [some |-> "sim_sig"]

\* A signed transaction with gas_limit 21000 and gas_price 2
AevumTx(from, nonce, tx_type) ==
    [from |-> from, nonce |-> nonce, tx_type |-> tx_type, gas_limit |-> 21000,
     gas_price |-> 2, signature |-> SimSig, timestamp |-> 0]

\* Transaction types, with and without the fields validate_basic looks at
TxTypes ==
    {[kind |-> "Transfer", to |-> keccak256("to"), amount |-> a] : a \in {0, 1000}}
    \cup {[kind |-> k, amount |-> a] : k \in {"Stake", "Unstake"}, a \in {0, 1000}}
    \cup {[kind |-> k, validator |-> keccak256("validator1"), amount |-> a] :
              k \in {"Delegate", "Undelegate"}, a \in {0, 1000}}
    \cup {[kind |-> "Vote", proposal_id |-> 1, vote |-> TRUE, weight |-> 0]}
    \cup {[kind |-> "CreateProposal", title |-> t, description |-> d, voting_period |-> p] :
              t \in {"", "Test Proposal"}, d \in {"", "A test"}, p \in {0, 100}}
    \cup {[kind |-> "ClaimRewards"]}

\* The transactions handed to add_transaction: a transfer of every sender and
\* nonce, and for one sender and nonce every type, gas setting and
\* signature
CandidateAevumTxs ==
    {AevumTx(s, n, t) : s \in Senders, n \in 0..MaxTxNonce,
         t \in {[kind |-> "Transfer", to |-> keccak256("to"), amount |-> 1000]}}
    \cup {AevumTx(keccak256("from"), 0, t) : t \in TxTypes}
    \cup {[AevumTx(keccak256("from"), 0, [kind |-> "ClaimRewards"])
              EXCEPT !.gas_limit = l, !.gas_price = p, !.signature = g] :
              l \in {0, 21000}, p \in {0, 1, 2}, g \in {None, SimSig}}

MempoolInit ==
    /\ BondIdle /\ MinerIdle /\ RetargetIdle
    /\ state = None /\ engine = None
    /\ proposal = None /\ vm = None /\ node = None
    /\ \E max_size \in 0..MaxPoolSize : mempool = AevumMempool_new(max_size, 2)
    /\ outcome = None

\* mempool.add_transaction(tx)
AddTransaction ==
    /\ \E tx \in CandidateAevumTxs :
        LET r == AevumMempool_add_transaction(mempool, tx)
        IN  /\ mempool' = r.self
            /\ outcome' = [op |-> "add_transaction", tx |-> tx, result |-> r.result]
    /\ UNCHANGED <<bondVars, minerVars, retargetVars, state, engine, proposal, vm, node>>

\* mempool.remove_transaction(from, nonce)
RemoveTransaction ==
    /\ \E from \in Senders, nonce \in 0..MaxTxNonce :
        LET r == AevumMempool_remove_transaction(mempool, from, nonce)
        IN  /\ mempool' = r.self
            /\ outcome' = [op |-> "remove_transaction", from |-> from, nonce |-> nonce,
                           removed |-> r.removed]
    /\ UNCHANGED <<bondVars, minerVars, retargetVars, state, engine, proposal, vm, node>>

MempoolNext == AddTransaction \/ RemoveTransaction

MempoolSpec == MempoolInit /\ [][MempoolNext]_vars

\* The transaction passes validate_basic, is signed and pays min_gas_price
Admissible(pool, tx) ==
    /\ IsOk(AevumTransaction_validate_basic(tx))
    /\ AevumTransaction_is_signed(tx)
    /\ tx.gas_price >= pool.min_gas_price

\* C24: the number of pending transactions over all senders never exceeds
\* max_size: add_transaction of a valid transaction succeeds while the pool
\* holds fewer than max_size transactions, at max_size - 1 in particular, and
\* fails when it holds max_size.
C24_PoolSizeBounded ==
    /\ [](mempool # None =>
            TotalTxs(mempool.pending, DOMAIN mempool.pending) <= mempool.max_size)
    /\ [][(outcome'.op = "add_transaction" /\ Admissible(mempool, outcome'.tx)) =>
            LET total == TotalTxs(mempool.pending, DOMAIN mempool.pending)
                after == TotalTxs(mempool'.pending, DOMAIN mempool'.pending)
            IN  IF total < mempool.max_size
                THEN IsOk(outcome'.result) /\ after = total + 1
                ELSE ~IsOk(outcome'.result) /\ mempool' = mempool]_vars

\* A full pool of two transactions has just refused a valid transaction
C24_Witness ==
    /\ mempool # None /\ outcome # None
    /\ outcome.op = "add_transaction"
    /\ outcome.result.msg = "Mempool cheio"
    /\ mempool.max_size >= 2
    /\ TotalTxs(mempool.pending, DOMAIN mempool.pending) = mempool.max_size

\* C25: each sender's pending list is sorted by nonce in ascending order
\* (transactions of equal nonce are neighbours).
C25_SortedByNonce ==
    mempool # None =>
        \A s \in DOMAIN mempool.pending :
            \A i, j \in DOMAIN mempool.pending[s] :
                i < j => mempool.pending[s][i].nonce <= mempool.pending[s][j].nonce

\* A transaction with a smaller nonce was admitted after one with a larger
\* nonce and stands in front of it
C25_Witness ==
    /\ mempool # None /\ outcome # None
    /\ outcome.op = "add_transaction"
    /\ IsOk(outcome.result)
    /\ Len(mempool.pending[outcome.tx.from]) >= 2
    /\ mempool.pending[outcome.tx.from][1] = outcome.tx
    /\ mempool.pending[outcome.tx.from][2].nonce > outcome.tx.nonce

\* Basic validation as C26 words it: nonzero gas_limit and gas_price, a
\* nonzero amount in every variant that carries an amount, non-empty proposal
\* title and description
BasicValidAsStated(tx) ==
    /\ tx.gas_limit # 0
    /\ tx.gas_price # 0
    /\ "amount" \in DOMAIN tx.tx_type => tx.tx_type.amount # 0
    /\ tx.tx_type.kind = "CreateProposal"
           => tx.tx_type.title # "" /\ tx.tx_type.description # ""

\* C26: add_transaction admits a transaction only if it passes basic
\* validation, is signed and has gas_price >= min_gas_price; a transaction
\* failing any of these is rejected with InvalidTransaction and the mempool is
\* left unchanged.
C26_OnlyValidAdmitted ==
    [][outcome'.op = "add_transaction" =>
        LET tx == outcome'.tx
            valid == /\ BasicValidAsStated(tx)
                     /\ AevumTransaction_is_signed(tx)
                     /\ tx.gas_price >= mempool.min_gas_price
        IN  ~valid => /\ outcome'.result.err = "InvalidTransaction"
                      /\ mempool' = mempool]_vars

----------------------------------------------------------------------------
(* i64 values of the script VM (bond-core/src/script.rs).  A number is kept
   as the 8 bytes of its two's complement representation, least significant
   first, which is what StackItem::as_bytes and i64::from_le_bytes work
   with; the arithmetic has the full 64-bit width. *)

I64_MIN == <<0, 0, 0, 0, 0, 0, 0, 128>>
I64_MAX == <<255, 255, 255, 255, 255, 255, 255, 127>>

IsNegative(a) == a[8] >= 128
IsZero(a) == \A i \in 1..8 : a[i] = 0

\* a + b + carry from byte i upwards; acc holds the bytes below i
RECURSIVE AddLoop(_, _, _, _, _)
AddLoop(a, b, carry, i, acc) ==
    IF i > 8 THEN acc
    ELSE LET sum == a[i] + b[i] + carry
         IN  AddLoop(a, b, sum \div 256, i + 1, Append(acc, sum % 256))

AddWithCarry(a, b, carry_in) == AddLoop(a, b, carry_in, 1, <<>>)

wrapping_add(a, b) == AddWithCarry(a, b, 0)
Complement(a) ==
    <<255 - a[1], 255 - a[2], 255 - a[3], 255 - a[4],
      255 - a[5], 255 - a[6], 255 - a[7], 255 - a[8]>>
\* the i64 of a small integer n
I64(n) ==
    IF n >= 0 THEN AddWithCarry(to_le_bytes(n), to_le_bytes(0), 0)
    ELSE Complement(to_le_bytes(-(n + 1)))

wrapping_sub(a, b) == AddWithCarry(a, Complement(b), 1)
wrapping_neg(a) == wrapping_sub(I64(0), a)

add_overflows(a, b) ==
    IsNegative(a) = IsNegative(b) /\ IsNegative(wrapping_add(a, b)) # IsNegative(a)

sub_overflows(a, b) ==
    IsNegative(a) # IsNegative(b) /\ IsNegative(wrapping_sub(a, b)) # IsNegative(a)

\* column k (1..16) of the schoolbook product of two unsigned 8-byte values
ProductColumn(a, b, k) ==
    SumSeq([i \in 1..8 |-> IF k + 1 - i \in 1..8 THEN a[i] * b[k + 1 - i] ELSE 0])

\* the product from column k upwards; acc holds the bytes below k
RECURSIVE ProductLoop(_, _, _, _, _)
ProductLoop(a, b, carry, k, acc) ==
    IF k > 16 THEN acc
    ELSE LET sum == ProductColumn(a, b, k) + carry
         IN  ProductLoop(a, b, sum \div 256, k + 1, Append(acc, sum % 256))

\* the 16 bytes of the product of two unsigned 8-byte values
WideProduct(a, b) == ProductLoop(a, b, 0, 1, <<>>)

wrapping_mul(a, b) == SubSeq(WideProduct(a, b), 1, 8)

\* |a| as an unsigned 8-byte value (|i64::MIN| = 2^63 has the bytes of MIN)
unsigned_abs(a) == IF IsNegative(a) THEN wrapping_neg(a) ELSE a

mul_overflows(a, b) ==
    LET p == WideProduct(unsigned_abs(a), unsigned_abs(b))
        high == \E k \in 9..16 : p[k] # 0
    IN  IF IsNegative(a) = IsNegative(b)
        THEN high \/ p[8] >= 128
        ELSE high \/ (p[8] >= 128 /\ SubSeq(p, 1, 8) # I64_MIN)

\* unsigned comparison a >= b from the most significant byte down
RECURSIVE GeFrom(_, _, _)
GeFrom(a, b, i) ==
    IF i = 0 THEN TRUE
    ELSE IF a[i] # b[i] THEN a[i] > b[i]
    ELSE GeFrom(a, b, i - 1)

UnsignedGe(a, b) == GeFrom(a, b, 8)

\* bit i (0..63) of a
BitOf(a, i) == (a[(i \div 8) + 1] \div (2 ^ (i % 8))) % 2

\* 2 * a + bit
ShiftIn(a, bit) == AddWithCarry(a, a, bit)

\* One step of the long division of the unsigned n by the unsigned d # 0:
\* bit i of n is shifted into the remainder of acc
DivStep(n, d, i, acc) ==
    LET r2 == ShiftIn(acc.rem, BitOf(n, i))
    IN  IF UnsignedGe(r2, d)
        THEN [quot |-> ShiftIn(acc.quot, 1), rem |-> wrapping_sub(r2, d)]
        ELSE [quot |-> ShiftIn(acc.quot, 0), rem |-> r2]

\* The steps for the bits hi down to lo, split in halves to keep the
\* evaluation shallow.  The remainder of acc is below d before every step.
RECURSIVE DivLoop(_, _, _, _, _)
DivLoop(n, d, hi, lo, acc) ==
    IF UnsignedGe(acc.rem, d) THEN acc
    ELSE IF hi = lo THEN DivStep(n, d, hi, acc)
    ELSE LET mid == (hi + lo + 1) \div 2
         IN  DivLoop(n, d, mid - 1, lo, DivLoop(n, d, hi, mid, acc))

UnsignedDivRem(n, d) == DivLoop(n, d, 63, 0, [quot |-> I64(0), rem |-> I64(0)])

div_overflows(a, b) == a = I64_MIN /\ b = I64(-1)

\* a / b truncating toward zero, for b # 0
wrapping_div(a, b) ==
    LET q == UnsignedDivRem(unsigned_abs(a), unsigned_abs(b)).quot
    IN  IF IsNegative(a) # IsNegative(b) THEN wrapping_neg(q) ELSE q

\* a % b with the sign of a, for b # 0
wrapping_rem(a, b) ==
    LET r == UnsignedDivRem(unsigned_abs(a), unsigned_abs(b)).rem
    IN  IF IsNegative(a) THEN wrapping_neg(r) ELSE r

\* signed comparison a < b
I64Less(a, b) ==
    IF IsNegative(a) # IsNegative(b) THEN IsNegative(a)
    ELSE a # b /\ UnsignedGe(b, a)

----------------------------------------------------------------------------
(* bond-core/src/script.rs: the script VM.  A script is a sequence of bytes;
   the stack is a sequence with its top at the end.  The ScriptContext is
   left out: no opcode of the source reads it. *)

MAX_STACK_SIZE == 1000
MAX_SCRIPT_SIZE == 10000
MAX_OPS == 1000

OP_DUP == 1
OP_DROP == 2
OP_SWAP == 3
OP_ROT == 4
OP_PUSHDATA == 16
OP_PUSHNUM == 17
OP_ADD == 32
OP_SUB == 33
OP_MUL == 34
OP_DIV == 35
OP_MOD == 36
OP_EQUAL == 48
OP_EQUALVERIFY == 49
OP_LESSTHAN == 50
OP_GREATERTHAN == 51
OP_HASH256 == 64
OP_CHECKSIG == 65
OP_CHECKMULTISIG == 66
OP_IF == 80
OP_ELSE == 81
OP_ENDIF == 82
OP_VERIFY == 83
OP_RETURN == 84
OP_NOP == 255

\* the bytes OpCode::try_from accepts
OpCode_try_from ==
    {OP_DUP, OP_DROP, OP_SWAP, OP_ROT, OP_PUSHDATA, OP_PUSHNUM, OP_ADD, OP_SUB,
     OP_MUL, OP_DIV, OP_MOD, OP_EQUAL, OP_EQUALVERIFY, OP_LESSTHAN,
     OP_GREATERTHAN, OP_HASH256, OP_CHECKSIG, OP_CHECKMULTISIG, OP_IF, OP_ELSE,
     OP_ENDIF, OP_VERIFY, OP_RETURN, OP_NOP}

\* StackItem: every variant is kept with the bytes as_bytes returns for it
StackItem_Data(data) == [item |-> "Data", bytes |-> data]
StackItem_Number(n) == [item |-> "Number", bytes |-> n]
StackItem_Boolean(b) == [item |-> "Boolean", bytes |-> IF b THEN <<1>> ELSE <<0>>]

StackItem_as_bytes(it) == it.bytes

\* as_number: Ok with the i64, or the error for data longer than 8 bytes
StackItem_as_number(it) ==
    IF it.item = "Number" THEN [ok |-> TRUE, num |-> it.bytes]
    ELSE IF it.item = "Boolean" THEN [ok |-> TRUE, num |-> I64(it.bytes[1])]
    ELSE IF Len(it.bytes) <= 8
         THEN [ok |-> TRUE,
               num |-> SubSeq(it.bytes \o <<0, 0, 0, 0, 0, 0, 0, 0>>, 1, 8)]
         ELSE [ok |-> FALSE, num |-> I64(0)]

\* as_bool: true for Boolean(true), a number other than 0, data with a byte
\* other than 0
StackItem_as_bool(it) == \E i \in 1..Len(it.bytes) : it.bytes[i] # 0

\* SHA3-256 as a fixed function to 32 bytes (not injective, as the digest)
Sha3_256(data) ==
    LET seed == SumSeq(data) + 7 * Len(data)
    IN  SubSeq(to_le_bytes(seed + 1) \o to_le_bytes(seed + 2)
               \o to_le_bytes(seed + 3) \o to_le_bytes(seed + 5), 1, 32)

\* Results of execute: Ok(bool), Err(ScriptError(msg)), or a panic of the
\* thread that called it
ScriptError(m) == [err |-> "ScriptError", msg |-> m, val |-> FALSE]
Panic(m) == [err |-> "Panic", msg |-> m, val |-> FALSE]

\* Outcome of one opcode: the stack it leaves, the program counter, and the
\* result if it ends the execution (None if the loop goes on)
Continue(s, pc) == [stack |-> s, pc |-> pc, done |-> None]
Stop(s, pc, r) == [stack |-> s, pc |-> pc, done |-> r]

Top(s) == s[Len(s)]
Pop(s) == SubSeq(s, 1, Len(s) - 1)
Pop2(s) == SubSeq(s, 1, Len(s) - 2)

\* The two pops every binary opcode starts with: None, or the stack left
\* behind when the first or the second pop finds the stack empty
Underflow(s) ==
    IF Len(s) = 0 THEN [some |-> s]
    ELSE IF Len(s) = 1 THEN [some |-> <<>>]
    ELSE None

ScriptVM_op_dup(s, pc) ==
    IF s = <<>> THEN Stop(s, pc, ScriptError("Stack underflow in OP_DUP"))
    ELSE Continue(Append(s, Top(s)), pc)

ScriptVM_op_drop(s, pc) ==
    IF s = <<>> THEN Stop(s, pc, ScriptError("Stack underflow in OP_DROP"))
    ELSE Continue(Pop(s), pc)

ScriptVM_op_swap(s, pc) ==
    IF Len(s) < 2 THEN Stop(s, pc, ScriptError("Stack underflow in OP_SWAP"))
    ELSE Continue(Pop2(s) \o <<s[Len(s)], s[Len(s) - 1]>>, pc)

ScriptVM_op_rot(s, pc) ==
    IF Len(s) < 3 THEN Stop(s, pc, ScriptError("Stack underflow in OP_ROT"))
    ELSE Continue(SubSeq(s, 1, Len(s) - 3)
                  \o <<s[Len(s) - 1], s[Len(s)], s[Len(s) - 2]>>, pc)

\* a + b, a - b, a * b of the source: with overflow checks compiled in, an
\* overflow panics; without them the result wraps
ScriptVM_op_add(s, pc, overflow_checks) ==
    IF Underflow(s) # None
    THEN Stop(Underflow(s).some, pc, ScriptError("Stack underflow in OP_ADD"))
    ELSE LET a == StackItem_as_number(s[Len(s) - 1])
             b == StackItem_as_number(Top(s))
         IN  IF ~a.ok \/ ~b.ok
             THEN Stop(Pop2(s), pc, ScriptError("Cannot convert data to number"))
             ELSE IF overflow_checks /\ add_overflows(a.num, b.num)
             THEN Stop(Pop2(s), pc, Panic("attempt to add with overflow"))
             ELSE Continue(Append(Pop2(s),
                      StackItem_Number(wrapping_add(a.num, b.num))), pc)

ScriptVM_op_sub(s, pc, overflow_checks) ==
    IF Underflow(s) # None
    THEN Stop(Underflow(s).some, pc, ScriptError("Stack underflow in OP_SUB"))
    ELSE LET a == StackItem_as_number(s[Len(s) - 1])
             b == StackItem_as_number(Top(s))
         IN  IF ~a.ok \/ ~b.ok
             THEN Stop(Pop2(s), pc, ScriptError("Cannot convert data to number"))
             ELSE IF overflow_checks /\ sub_overflows(a.num, b.num)
             THEN Stop(Pop2(s), pc, Panic("attempt to subtract with overflow"))
             ELSE Continue(Append(Pop2(s),
                      StackItem_Number(wrapping_sub(a.num, b.num))), pc)

ScriptVM_op_mul(s, pc, overflow_checks) ==
    IF Underflow(s) # None
    THEN Stop(Underflow(s).some, pc, ScriptError("Stack underflow in OP_MUL"))
    ELSE LET a == StackItem_as_number(s[Len(s) - 1])
             b == StackItem_as_number(Top(s))
         IN  IF ~a.ok \/ ~b.ok
             THEN Stop(Pop2(s), pc, ScriptError("Cannot convert data to number"))
             ELSE IF overflow_checks /\ mul_overflows(a.num, b.num)
             THEN Stop(Pop2(s), pc, Panic("attempt to multiply with overflow"))
             ELSE Continue(Append(Pop2(s),
                      StackItem_Number(wrapping_mul(a.num, b.num))), pc)

\* a / b: the division of i64::MIN by -1 panics in every build
ScriptVM_op_div(s, pc) ==
    IF Underflow(s) # None
    THEN Stop(Underflow(s).some, pc, ScriptError("Stack underflow in OP_DIV"))
    ELSE LET a == StackItem_as_number(s[Len(s) - 1])
             b == StackItem_as_number(Top(s))
         IN  IF ~b.ok
             THEN Stop(Pop2(s), pc, ScriptError("Cannot convert data to number"))
             ELSE IF IsZero(b.num)
             THEN Stop(Pop2(s), pc, ScriptError("Division by zero"))
             ELSE IF ~a.ok
             THEN Stop(Pop2(s), pc, ScriptError("Cannot convert data to number"))
             ELSE IF div_overflows(a.num, b.num)
             THEN Stop(Pop2(s), pc, Panic("attempt to divide with overflow"))
             ELSE Continue(Append(Pop2(s),
                      StackItem_Number(wrapping_div(a.num, b.num))), pc)

\* a % b: the remainder of i64::MIN by -1 panics in every build
ScriptVM_op_mod(s, pc) ==
    IF Underflow(s) # None
    THEN Stop(Underflow(s).some, pc, ScriptError("Stack underflow in OP_MOD"))
    ELSE LET a == StackItem_as_number(s[Len(s) - 1])
             b == StackItem_as_number(Top(s))
         IN  IF ~b.ok
             THEN Stop(Pop2(s), pc, ScriptError("Cannot convert data to number"))
             ELSE IF IsZero(b.num)
             THEN Stop(Pop2(s), pc, ScriptError("Modulo by zero"))
             ELSE IF ~a.ok
             THEN Stop(Pop2(s), pc, ScriptError("Cannot convert data to number"))
             ELSE IF div_overflows(a.num, b.num)
             THEN Stop(Pop2(s), pc,
                       Panic("attempt to calculate the remainder with overflow"))
             ELSE Continue(Append(Pop2(s),
                      StackItem_Number(wrapping_rem(a.num, b.num))), pc)

ScriptVM_op_equal(s, pc) ==
    IF Underflow(s) # None
    THEN Stop(Underflow(s).some, pc, ScriptError("Stack underflow in OP_EQUAL"))
    ELSE Continue(Append(Pop2(s), StackItem_Boolean(
             StackItem_as_bytes(s[Len(s) - 1]) = StackItem_as_bytes(Top(s)))), pc)

ScriptVM_op_lessthan(s, pc) ==
    IF Underflow(s) # None
    THEN Stop(Underflow(s).some, pc, ScriptError("Stack underflow in OP_LESSTHAN"))
    ELSE LET a == StackItem_as_number(s[Len(s) - 1])
             b == StackItem_as_number(Top(s))
         IN  IF ~a.ok \/ ~b.ok
             THEN Stop(Pop2(s), pc, ScriptError("Cannot convert data to number"))
             ELSE Continue(Append(Pop2(s),
                      StackItem_Boolean(I64Less(a.num, b.num))), pc)

ScriptVM_op_greaterthan(s, pc) ==
    IF Underflow(s) # None
    THEN Stop(Underflow(s).some, pc,
              ScriptError("Stack underflow in OP_GREATERTHAN"))
    ELSE LET a == StackItem_as_number(s[Len(s) - 1])
             b == StackItem_as_number(Top(s))
         IN  IF ~a.ok \/ ~b.ok
             THEN Stop(Pop2(s), pc, ScriptError("Cannot convert data to number"))
             ELSE Continue(Append(Pop2(s),
                      StackItem_Boolean(I64Less(b.num, a.num))), pc)

ScriptVM_op_hash256(s, pc) ==
    IF s = <<>> THEN Stop(s, pc, ScriptError("Stack underflow in OP_HASH256"))
    ELSE Continue(Append(Pop(s),
             StackItem_Data(Sha3_256(StackItem_as_bytes(Top(s))))), pc)

\* the simplified check of the source: any non-empty signature and key pass
ScriptVM_op_checksig(s, pc) ==
    IF Underflow(s) # None
    THEN Stop(Underflow(s).some, pc, ScriptError("Stack underflow in OP_CHECKSIG"))
    ELSE Continue(Append(Pop2(s), StackItem_Boolean(
             /\ Len(StackItem_as_bytes(s[Len(s) - 1])) > 0
             /\ Len(StackItem_as_bytes(Top(s))) > 0)), pc)

ScriptVM_op_checkmultisig(s, pc) ==
    Stop(s, pc, ScriptError("OP_CHECKMULTISIG not fully implemented"))

ScriptVM_op_verify(s, pc) ==
    IF s = <<>> THEN Stop(s, pc, ScriptError("Stack underflow in OP_VERIFY"))
    ELSE IF ~StackItem_as_bool(Top(s))
    THEN Stop(Pop(s), pc, ScriptError("OP_VERIFY failed"))
    ELSE Continue(Pop(s), pc)

\* OP_PUSHDATA with read_push_data; pc counts the bytes consumed so far
ScriptVM_read_push_data(s, script, pc) ==
    IF pc >= Len(script)
    THEN Stop(s, pc, ScriptError("Unexpected end of script in PUSHDATA"))
    ELSE LET len == script[pc + 1]
             start == pc + 1
             end == start + len
         IN  IF end > Len(script)
             THEN Stop(s, pc, ScriptError("Invalid PUSHDATA length"))
             ELSE Continue(Append(s,
                      StackItem_Data(SubSeq(script, start + 1, end))), end)

\* OP_PUSHNUM with read_number
ScriptVM_read_number(s, script, pc) ==
    IF pc + 8 > Len(script)
    THEN Stop(s, pc, ScriptError("Unexpected end of script in PUSHNUM"))
    ELSE Continue(Append(s,
             StackItem_Number(SubSeq(script, pc + 1, pc + 8))), pc + 8)

\* the match on the opcode in execute
Dispatch(opcode, s, script, pc, overflow_checks) ==
    CASE opcode = OP_DUP -> ScriptVM_op_dup(s, pc)
      [] opcode = OP_DROP -> ScriptVM_op_drop(s, pc)
      [] opcode = OP_SWAP -> ScriptVM_op_swap(s, pc)
      [] opcode = OP_ROT -> ScriptVM_op_rot(s, pc)
      [] opcode = OP_PUSHDATA -> ScriptVM_read_push_data(s, script, pc)
      [] opcode = OP_PUSHNUM -> ScriptVM_read_number(s, script, pc)
      [] opcode = OP_ADD -> ScriptVM_op_add(s, pc, overflow_checks)
      [] opcode = OP_SUB -> ScriptVM_op_sub(s, pc, overflow_checks)
      [] opcode = OP_MUL -> ScriptVM_op_mul(s, pc, overflow_checks)
      [] opcode = OP_DIV -> ScriptVM_op_div(s, pc)
      [] opcode = OP_MOD -> ScriptVM_op_mod(s, pc)
      [] opcode = OP_EQUAL -> ScriptVM_op_equal(s, pc)
      [] opcode = OP_EQUALVERIFY ->
            LET eq == ScriptVM_op_equal(s, pc)
            IN  IF eq.done # None THEN eq ELSE ScriptVM_op_verify(eq.stack, pc)
      [] opcode = OP_LESSTHAN -> ScriptVM_op_lessthan(s, pc)
      [] opcode = OP_GREATERTHAN -> ScriptVM_op_greaterthan(s, pc)
      [] opcode = OP_HASH256 -> ScriptVM_op_hash256(s, pc)
      [] opcode = OP_CHECKSIG -> ScriptVM_op_checksig(s, pc)
      [] opcode = OP_CHECKMULTISIG -> ScriptVM_op_checkmultisig(s, pc)
      [] opcode = OP_VERIFY -> ScriptVM_op_verify(s, pc)
      [] opcode = OP_RETURN -> Stop(s, pc, Ok(FALSE))
      [] opcode = OP_NOP -> Continue(s, pc)
      [] OTHER -> Stop(s, pc, ScriptError("Unimplemented opcode"))

\* the test at the head of the loop of execute
OpsExhausted(op_count) == op_count > MAX_OPS

\* One pass through the loop of execute, or the lines after the loop once
\* the program counter has reached the end of the script.  run is the
\* running execution: script, pc, stack, op_count and result (None until
\* execute returns).
ExecuteIteration(run, overflow_checks) ==
    IF run.pc >= Len(run.script)
    THEN [run EXCEPT !.result =
             Ok(run.stack # <<>> /\ StackItem_as_bool(Top(run.stack)))]
    ELSE IF OpsExhausted(run.op_count)
    THEN [run EXCEPT !.result = ScriptError("Too many operations")]
    ELSE IF run.script[run.pc + 1] \notin OpCode_try_from
    THEN [run EXCEPT !.result = ScriptError("Unknown opcode")]
    ELSE TheOne({[script |-> run.script, pc |-> after.pc, stack |-> after.stack,
                  op_count |-> run.op_count + 1,
                  result |-> IF after.done # None THEN after.done
                             ELSE IF Len(after.stack) > MAX_STACK_SIZE
                             THEN ScriptError("Stack overflow")
                             ELSE None] :
                 after \in {Dispatch(run.script[run.pc + 1], run.stack,
                                     run.script, run.pc + 1, overflow_checks)}})

\* Up to n iterations of the loop, stopping when execute returns; the
\* iterations are split in halves to keep the evaluation shallow
RECURSIVE ExecuteLoop(_, _, _)
ExecuteLoop(run, n, overflow_checks) ==
    IF run.result # None \/ n = 0 THEN run
    ELSE IF n = 1 THEN ExecuteIteration(run, overflow_checks)
    ELSE ExecuteLoop(ExecuteLoop(run, n \div 2, overflow_checks),
                     n - (n \div 2), overflow_checks)

ScriptVM_new == [stack |-> <<>>, alt_stack |-> <<>>, op_count |-> 0]

\* execute on the VM machine: the VM it leaves and the result.  Every
\* iteration consumes at least one byte, so Len(script) + 1 iterations
\* always reach the return.
ScriptVM_execute(machine, script, overflow_checks) ==
    IF Len(script) > MAX_SCRIPT_SIZE
    THEN [vm |-> machine, result |-> ScriptError("Script too large")]
    ELSE TheOne({[vm |-> [stack |-> end.stack, alt_stack |-> machine.alt_stack,
                          op_count |-> end.op_count],
                  result |-> end.result] :
                 end \in {ExecuteLoop([script |-> script, pc |-> 0,
                                       stack |-> machine.stack,
                                       op_count |-> machine.op_count,
                                       result |-> None],
                                      Len(script) + 1, overflow_checks)}})

----------------------------------------------------------------------------
(* Executions of scripts on one ScriptVM.  The variable vm holds the VM, the
   build (overflow checks compiled in or not), the number of execute calls
   made on the VM, and the last call: its script, the op_count and the
   stack depth before it, and its result. *)

MaxExecutions == 2

Repeat(byte, n) == [i \in 1..n |-> byte]
PushNum(n) == <<OP_PUSHNUM>> \o n
PushData(data) == <<OP_PUSHDATA, Len(data)>> \o data

\* scripts at the three limits
LimitScripts ==
    {Repeat(OP_NOP, MAX_OPS), Repeat(OP_NOP, MAX_OPS + 1),
     Repeat(OP_NOP, MAX_OPS + 2),
     PushNum(I64(1)) \o Repeat(OP_NOP, MAX_OPS),
     Repeat(OP_NOP, MAX_SCRIPT_SIZE + 1),
     PushNum(I64(1)) \o Repeat(OP_DUP, MAX_STACK_SIZE - 1),
     PushNum(I64(1)) \o Repeat(OP_DUP, MAX_STACK_SIZE),
     <<OP_DUP>>}

\* arithmetic at the ends of the i64 range
ArithmeticScripts ==
    {PushNum(I64_MAX) \o PushNum(I64(1)) \o <<OP_ADD>>,
     PushNum(I64_MIN) \o PushNum(I64(1)) \o <<OP_SUB>>,
     PushNum(I64_MAX) \o PushNum(I64(2)) \o <<OP_MUL>>,
     PushNum(I64_MIN) \o PushNum(I64(-1)) \o <<OP_DIV>>,
     PushNum(I64_MIN) \o PushNum(I64(-1)) \o <<OP_MOD>>,
     PushNum(I64(7)) \o PushNum(I64(-2)) \o <<OP_DIV>>,
     PushNum(I64(7)) \o PushNum(I64(0)) \o <<OP_MOD>>,
     PushNum(I64(3)) \o PushNum(I64(4)) \o <<OP_ADD, OP_DUP, OP_SUB>>}

\* the other opcodes
OtherScripts ==
    {<<>>, <<OP_RETURN>>, <<OP_IF>>, <<9>>, <<OP_VERIFY>>, <<OP_DROP>>,
     PushData(<<1, 2>>) \o <<OP_DUP, OP_HASH256, OP_SWAP, OP_CHECKSIG>>,
     PushData(<<0>>) \o PushData(<<>>) \o <<OP_EQUAL>>,
     <<OP_PUSHDATA, 5, 1>>}

VmScripts == LimitScripts \cup ArithmeticScripts \cup OtherScripts

ScriptInit ==
    /\ BondIdle /\ MinerIdle /\ RetargetIdle /\ AevumIdle
    /\ proposal = None /\ mempool = None /\ node = None
    /\ \E overflow_checks \in BOOLEAN :
          vm = [machine |-> ScriptVM_new, overflow_checks |-> overflow_checks,
                calls |-> 0, script |-> <<>>, ops_before |-> 0,
                stack_before |-> 0, result |-> None]

\* let mut vm = ScriptVM::new()
NewVM ==
    /\ vm.calls > 0
    /\ vm.result.err # "Panic"
    /\ vm' = [vm EXCEPT !.machine = ScriptVM_new, !.calls = 0, !.script = <<>>,
                        !.ops_before = 0, !.stack_before = 0,
                        !.result = None]
    /\ UNCHANGED <<bondVars, minerVars, retargetVars, aevumVars, proposal,
                   mempool, node>>

\* vm.execute(&script, &context); a panic ends the thread
Execute ==
    /\ vm.calls < MaxExecutions
    /\ vm.result # None => vm.result.err # "Panic"
    /\ \E script \in VmScripts :
          LET run == ScriptVM_execute(vm.machine, script, vm.overflow_checks)
          IN  vm' = [vm EXCEPT !.machine = run.vm, !.calls = @ + 1,
                               !.script = script,
                               !.ops_before = vm.machine.op_count,
                               !.stack_before = Len(vm.machine.stack),
                               !.result = run.result]
    /\ UNCHANGED <<bondVars, minerVars, retargetVars, aevumVars, proposal,
                   mempool, node>>

ScriptNext == NewVM \/ Execute

ScriptSpec == ScriptInit /\ [][ScriptNext]_vars

\* the operations the last call of execute performed
OpsPerformed == vm.machine.op_count - vm.ops_before

\* C27: an execution fails with a ScriptError when the script is longer
\* than 10,000 bytes, when the stack grows beyond 1,000 items, or when more
\* than 1,000 operations are executed; no execution that performs more than
\* 1,000 operations returns a result.
C27_LimitsEnforced ==
    vm.result # None =>
       /\ Len(vm.script) > MAX_SCRIPT_SIZE => vm.result.err = "ScriptError"
       /\ (/\ Len(vm.machine.stack) > MAX_STACK_SIZE
           /\ Len(vm.machine.stack) > vm.stack_before)
             => vm.result.err = "ScriptError"
       /\ OpsPerformed > MAX_OPS => vm.result.err = "ScriptError"

\* C29: validation reports every failure as an error value and never
\* panics, for all inputs: no execution of a script, whatever its i64
\* operands (ADD, SUB and MUL that overflow, DIV and MOD of i64::MIN by -1),
\* ends in a panic.
C29_NeverPanics == vm.result # None => vm.result.err # "Panic"

----------------------------------------------------------------------------
(* bond-core/src/transaction.rs: Transaction::validate_scripts *)

NotFound(m) == [err |-> "TransactionNotFound", msg |-> m, val |-> FALSE]

Transaction_create_p2pkh_script(pubkey_hash) ==
    <<OP_DUP, OP_HASH256>> \o PushData(pubkey_hash)
    \o <<OP_EQUALVERIFY, OP_CHECKSIG>>

Transaction_create_p2pkh_unlock_script(signature, pubkey) ==
    PushData(signature) \o PushData(pubkey)

\* The execution of the locking script on the VM the unlocking script left:
\* None if it passes (or is empty and skipped), else the value
\* validate_scripts returns
ValidateLock(machine, script_pubkey, overflow_checks) ==
    IF script_pubkey = <<>> THEN None
    ELSE TheOne({IF lock.result.err # "Ok" THEN lock.result
                 ELSE IF ~lock.result.val THEN Ok(FALSE)
                 ELSE None :
                 lock \in {ScriptVM_execute(machine, script_pubkey,
                                            overflow_checks)}})

\* The two executions for one input on a fresh VM: None if both scripts
\* pass (or are empty and skipped), else the value validate_scripts returns
ValidateInput(script_sig, script_pubkey, overflow_checks) ==
    IF script_sig = <<>>
    THEN ValidateLock(ScriptVM_new, script_pubkey, overflow_checks)
    ELSE TheOne({IF unlock.result.err # "Ok" THEN unlock.result
                 ELSE IF ~unlock.result.val THEN Ok(FALSE)
                 ELSE ValidateLock(unlock.vm, script_pubkey, overflow_checks) :
                 unlock \in {ScriptVM_execute(ScriptVM_new, script_sig,
                                              overflow_checks)}})

\* the loop over the inputs from input i
RECURSIVE ValidateScriptsLoop(_, _, _, _)
ValidateScriptsLoop(tx, utxos, i, overflow_checks) ==
    IF i > Len(tx.inputs) THEN Ok(TRUE)
    ELSE IF ~UtxoSet_contains(utxos, tx.inputs[i].previous_output)
    THEN NotFound("UTXO not found")
    ELSE TheOne({IF stop # None THEN stop
                 ELSE ValidateScriptsLoop(tx, utxos, i + 1, overflow_checks) :
                 stop \in {ValidateInput(tx.inputs[i].script_sig,
                              UtxoSet_get_utxo(utxos,
                                  tx.inputs[i].previous_output).output.script_pubkey,
                              overflow_checks)}})

Transaction_validate_scripts(tx, utxos, overflow_checks) ==
    IF Transaction_is_coinbase(tx) THEN Ok(TRUE)
    ELSE ValidateScriptsLoop(tx, utxos, 1, overflow_checks)

----------------------------------------------------------------------------
(* Calls of validate_scripts.  The variable vm holds the build, the UTXO
   set, the transaction handed in and the result (None before the call). *)

MaxInputs == 2

PubKey == <<4, 17, 34, 51>>
Signature == <<48, 1, 2>>

UnlockScripts ==
    {<<>>, PushNum(I64(1)), PushNum(I64(0)), <<OP_RETURN>>, <<OP_ADD>>,
     Transaction_create_p2pkh_unlock_script(Signature, PubKey),
     PushNum(I64_MIN) \o PushNum(I64(-1))}

LockScripts ==
    {<<>>, <<OP_DROP>> \o PushNum(I64(1)), <<OP_VERIFY>>, <<OP_DIV>>,
     Transaction_create_p2pkh_script(Sha3_256(PubKey)),
     Transaction_create_p2pkh_script(Sha3_256(<<5>>))}

\* UtxoSet::new() and the sets add_utxo makes of it: every UTXO is stored
\* under the outpoint Utxo::outpoint returns
ScriptUtxoSets ==
    {UtxoSet_new} \cup
    {UtxoSet_add_utxo(UtxoSet_new, Utxo_new(ZeroHash, 0, 50, lock, 1)) :
        lock \in LockScripts}

ScriptInputs ==
    {TxInput_new(OutPoint_new(ZeroHash, 0), sig, 0) : sig \in UnlockScripts}
    \cup {TxInput_new(OutPoint_new(ZeroHash, 1), <<>>, 0)}

ScriptTxs ==
    {Transaction_coinbase(100, 5000, <<1, 2, 3>>)} \cup
    {Transaction_new(1, inputs, <<TxOutput_new(49, <<>>)>>, 0) :
        inputs \in UNION {[1..n -> ScriptInputs] : n \in 1..MaxInputs}}

ValidateScriptsInit ==
    /\ BondIdle /\ MinerIdle /\ RetargetIdle /\ AevumIdle
    /\ proposal = None /\ mempool = None /\ node = None
    /\ \E overflow_checks \in BOOLEAN, utxos \in ScriptUtxoSets :
          vm = [overflow_checks |-> overflow_checks, utxos |-> utxos,
                tx |-> None, validated |-> None]

\* tx.validate_scripts(&utxo_set)
ValidateScripts ==
    /\ vm.validated = None
    /\ \E tx \in ScriptTxs :
          vm' = [vm EXCEPT !.tx = tx, !.validated =
                    Transaction_validate_scripts(tx, vm.utxos, vm.overflow_checks)]
    /\ UNCHANGED <<bondVars, minerVars, retargetVars, aevumVars, proposal,
                   mempool, node>>

ValidateScriptsNext == ValidateScripts

ValidateScriptsSpec == ValidateScriptsInit /\ [][ValidateScriptsNext]_vars

\* Executing the unlocking script and then the locking script on one VM
\* leaves a truthy item on top of the stack
CombinedLeavesTruthy(script_sig, script_pubkey, overflow_checks) ==
    LET unlock == ScriptVM_execute(ScriptVM_new, script_sig, overflow_checks)
        lock == ScriptVM_execute(unlock.vm, script_pubkey, overflow_checks)
    IN  /\ unlock.result.err = "Ok"
        /\ lock.result.err = "Ok"
        /\ lock.vm.stack # <<>>
        /\ StackItem_as_bool(Top(lock.vm.stack))

EveryInputLeavesTruthy ==
    \A i \in 1..Len(vm.tx.inputs) :
       /\ UtxoSet_contains(vm.utxos, vm.tx.inputs[i].previous_output)
       /\ CombinedLeavesTruthy(vm.tx.inputs[i].script_sig,
             vm.utxos[vm.tx.inputs[i].previous_output].output.script_pubkey,
             vm.overflow_checks)

\* C28: validate_scripts returns true for a transaction that is not a
\* coinbase if and only if, for every input, the unlocking script followed
\* by the locking script of the UTXO it spends, run on one VM, leaves a truthy
\* item on top of the stack; a coinbase always validates.
C28_ValidatesIffTruthy ==
    vm.validated # None =>
       IF Transaction_is_coinbase(vm.tx) THEN vm.validated = Ok(TRUE)
       ELSE (vm.validated = Ok(TRUE)) <=> EveryInputLeavesTruthy

----------------------------------------------------------------------------
(* src/network.rs: the blocks a P2PNode receives.  The chain of the node's
   blockchain is held in blocks, utxo_set and block_index; the variable node
   holds whether set_blockchain was called, the last message and, for every
   block of it that process_received_block was called with, what add_block
   returned ("NoBlockchain" when there is no blockchain to call). *)

MaxMessage == 2

\* process_received_block: the chain it leaves, what add_block returned, and
\* its own return value, which is Ok(()) on every path
P2PNode_process_received_block(has_blockchain, chain, params, block) ==
    IF has_blockchain
    THEN TheOne({[chain |-> [blocks |-> r.blocks, utxo_set |-> r.utxo_set,
                             block_index |-> r.block_index],
                  added |-> r.err, returned |-> "Ok"] :
                 r \in {Blockchain_add_block(chain.blocks, chain.utxo_set,
                                             chain.block_index, params, block)}})
    ELSE [chain |-> chain, added |-> "NoBlockchain", returned |-> "Ok"]

\* the loop of process_received_blocks from block i: `?` leaves the loop
\* when process_received_block returns an error
RECURSIVE ProcessBlocksLoop(_, _, _, _, _, _)
ProcessBlocksLoop(has_blockchain, chain, params, received, i, results) ==
    IF i > Len(received)
    THEN [chain |-> chain, results |-> results, returned |-> "Ok"]
    ELSE TheOne({
           IF step.returned # "Ok"
           THEN [chain |-> step.chain, results |-> Append(results, step.added),
                 returned |-> step.returned]
           ELSE ProcessBlocksLoop(has_blockchain, step.chain, params, received,
                                  i + 1, Append(results, step.added)) :
           step \in {P2PNode_process_received_block(has_blockchain, chain,
                                                    params, received[i])}})

P2PNode_process_received_blocks(has_blockchain, chain, params, received) ==
    ProcessBlocksLoop(has_blockchain, chain, params, received, 1, <<>>)

\* process_sync_response(blocks, height)
P2PNode_process_sync_response(has_blockchain, chain, params, received, height) ==
    P2PNode_process_received_blocks(has_blockchain, chain, params, received)

\* The blocks that extend block b of the current tip's successors: the
\* solved block with a coinbase for the height after b
ChildrenOf(b) ==
    LET chain == Append(blocks, b)
        coinbase == Transaction_coinbase(Len(chain),
                        Blockchain_calculate_block_reward(network_params, Len(chain)),
                        Script2)
    IN  {c \in MakeBlock(Block_hash(b), TRUE, 0,
                         Blockchain_get_next_difficulty(chain, network_params),
                         <<coinbase>>) : BlockHeader_meets_difficulty(c.header)}

\* the well-formed successors of the tip
NextBlocks == SolvedBlock(0, <<GoodCoinbase(<<>>)>>)

\* Blocks a peer sends: the successor of the tip, its own successor, a block
\* on a wrong parent and a block that pays the miner one unit too much
MessageBlocks ==
    NextBlocks
    \cup UNION {ChildrenOf(b) : b \in NextBlocks}
    \cup UNION {MakeBlock(ZeroHash, TRUE, 0, NextDifficulty, <<GoodCoinbase(<<>>)>>)}
    \cup SolvedBlock(0, <<Transaction_coinbase(Len(blocks),
                             ExpectedReward(<<>>) + 1, Script2)>>)

BlockMessages == UNION {[1..n -> MessageBlocks] : n \in 0..MaxMessage}

\* P2PNode::new, then set_blockchain(Blockchain::new(..)) or not
NodeInit ==
    /\ \E params \in NetworkParamsChoices :
          LET genesis_block == Block_genesis(params.initial_reward, Script1, 0)
              applied == Block_apply_to_utxo_set(genesis_block, UtxoSet_new)
          IN  /\ blocks = <<genesis_block>>
              /\ utxo_set = applied.val
              /\ block_index = [h \in {Block_hash(genesis_block)} |-> 0]
              /\ network_params = params
    /\ lastOp = "new" /\ lastResult = "Ok" /\ lastMsg = "" /\ lastStage = ""
    /\ mined = None /\ created = None
    /\ MinerIdle /\ RetargetIdle /\ AevumIdle
    /\ proposal = None /\ mempool = None /\ vm = None
    /\ \E has_blockchain \in BOOLEAN :
          node = [blockchain |-> has_blockchain, message |-> "new",
                  received |-> <<>>, results |-> <<>>, height_before |-> 0]

\* The change a message with the blocks `received` makes
Receive(message, received, done) ==
    /\ blocks' = done.chain.blocks
    /\ utxo_set' = done.chain.utxo_set
    /\ block_index' = done.chain.block_index
    /\ lastOp' = message
    /\ lastResult' = done.returned
    /\ lastMsg' = ""
    /\ lastStage' = ""
    /\ node' = [node EXCEPT !.message = message, !.received = received,
                            !.results = done.results,
                            !.height_before = Len(blocks)]
    /\ UNCHANGED <<network_params, mined, created>>
    /\ UNCHANGED <<minerVars, retargetVars, aevumVars, proposal, mempool, vm>>

NodeChain == [blocks |-> blocks, utxo_set |-> utxo_set, block_index |-> block_index]

\* NetworkMessage::BlockBroadcast(block) on the block topic
ReceiveBlockBroadcast ==
    /\ Len(blocks) < MaxBlocks
    /\ \E block \in MessageBlocks :
          \E step \in {P2PNode_process_received_block(node.blockchain, NodeChain,
                                                       network_params, block)} :
             Receive("BlockBroadcast", <<block>>,
                     [chain |-> step.chain, results |-> <<step.added>>,
                      returned |-> step.returned])

\* NetworkMessage::BlockResponse(blocks) on the block topic
ReceiveBlockResponse ==
    \E received \in BlockMessages :
       /\ Len(blocks) + Len(received) <= MaxBlocks
       /\ \E done \in {P2PNode_process_received_blocks(node.blockchain, NodeChain,
                                                        network_params, received)} :
             Receive("BlockResponse", received, done)

\* NetworkMessage::SyncResponse { blocks, height } on the sync topic
ReceiveSyncResponse ==
    \E received \in BlockMessages, height \in 0..MaxBlocks :
       /\ Len(blocks) + Len(received) <= MaxBlocks
       /\ \E done \in {P2PNode_process_sync_response(node.blockchain, NodeChain,
                                            network_params, received, height)} :
             Receive("SyncResponse", received, done)

NodeNext == ReceiveBlockBroadcast \/ ReceiveBlockResponse \/ ReceiveSyncResponse

NodeSpec == NodeInit /\ [][NodeNext]_vars

\* block i of the last message was applied to the chain by that message
AppliedToChain(i) ==
    \E h \in (node.height_before + 1)..Len(blocks) : blocks[h] = node.received[i]

\* C30: the blocks of a BlockResponse or SyncResponse are applied in order
\* through add_block and the node stops at the first block that is
\* rejected: add_block is not called for a block after a rejected one, and
\* no block that follows a rejected block in the message is on the chain.
C30_StopsAtFirstRejection ==
    (node.message \in {"BlockResponse", "SyncResponse"} /\ node.blockchain) =>
       \A i \in 1..Len(node.received) :
          (i <= Len(node.results) /\ node.results[i] # "Ok") =>
             /\ Len(node.results) = i
             /\ \A j \in (i + 1)..Len(node.received) : ~AppliedToChain(j)

----------------------------------------------------------------------------
(* Governance: a proposal after its finalization *)

\* C40: once finalize has moved the proposal out of Active (to Passed,
\* Rejected or Expired), no later add_vote or finalize step changes its
\* tallies, its voters or its status.
C40_FinalizedIsFrozen ==
    [][(proposal # None /\ proposal.status # "Active") => proposal' = proposal]_vars

----------------------------------------------------------------------------
(* Epochs: the slots a schedule assigns and slots_assigned *)

\* The number of slots of the schedule that are given to the validator
SlotsGiven(schedule, validator) ==
    Cardinality({i \in DOMAIN schedule : schedule[i].validator = validator})

\* C39: slots_assigned of every validator counts the slots the generated
\* schedules assigned to it: a successful generate_schedule raises the
\* slots_assigned of each validator by the number of slots of the new
\* schedule that are given to it.
C39_SlotsAssignedCounted ==
    [][(outcome'.op = "generate_schedule" /\ IsOk(outcome'.result)) =>
        \A validator \in Producers :
            PerformanceEntry(engine', validator).slots_assigned =
                PerformanceEntry(engine, validator).slots_assigned
                    + SlotsGiven(engine'.current_schedule, validator)]_vars

----------------------------------------------------------------------------
(* Ties: elections over a registry whose registration order is known *)

TieStakes == {1000, 2000}

\* outcome.registered lists the validator keys in the order of their
\* registration; outcome.order is the order in which state.validators, a
\* std HashMap, hands out its entries.  The order of a HashMap is
\* unspecified: it is drawn anew whenever an entry is inserted and stays as
\* it is while the map is only read.
TieInit ==
    /\ BondIdle /\ MinerIdle /\ RetargetIdle /\ RestIdle
    /\ state = AevumState_new
    /\ \E config \in ElectionConfigs : engine = DposEngine_new(config)
    /\ outcome = [op |-> "new", registered |-> <<>>, order |-> <<>>]

\* state.register_validator(validator_key, stake_amount)
RegisterInOrder ==
    /\ \E validator_key \in ValidatorKeys, stake_amount \in TieStakes :
        \E r \in {AevumState_register_validator(state, validator_key, stake_amount)} :
            /\ state' = r.self
            /\ \E order \in IF IsOk(r.result) THEN Orders(DOMAIN r.self.validators)
                            ELSE {outcome.order} :
                outcome' = [op |-> "register_validator",
                            registered |-> IF IsOk(r.result)
                                           THEN Append(outcome.registered, validator_key)
                                           ELSE outcome.registered,
                            order |-> order,
                            result |-> r.result]
    /\ UNCHANGED <<bondVars, minerVars, retargetVars, restVars, engine>>

\* engine.elect_validators(&state)
ElectInOrder ==
    /\ outcome' = [op |-> "elect_validators",
                   registered |-> outcome.registered,
                   order |-> outcome.order,
                   elected |-> DposEngine_elect_validators(engine, state, outcome.order)]
    /\ UNCHANGED <<bondVars, minerVars, retargetVars, restVars, state, engine>>

TieNext == RegisterInOrder \/ ElectInOrder

TieSpec == TieInit /\ [][TieNext]_vars

\* The place of the validator in the order of registration
RegisteredAt(validator_key) ==
    CHOOSE i \in DOMAIN outcome.registered : outcome.registered[i] = validator_key

\* C35: validators of equal stake appear in the list of elect_validators in
\* the order of their registration, and when the cut at max_validators
\* falls inside a group of equal stakes the validators registered first are
\* the ones elected.
C35_TiesByInsertionOrder ==
    (outcome.op = "elect_validators" /\ IsOk(outcome.elected)) =>
        LET elected == outcome.elected.val
            stake(k) == state.validators[k].stake_amount
        IN  /\ \A i, j \in DOMAIN elected :
                (i < j /\ stake(elected[i]) = stake(elected[j]))
                    => RegisteredAt(elected[i]) < RegisteredAt(elected[j])
            /\ \A i \in DOMAIN elected, k \in DOMAIN state.validators :
                ((\A j \in DOMAIN elected : elected[j] # k)
                    /\ stake(k) = stake(elected[i]))
                    => RegisteredAt(elected[i]) < RegisteredAt(k)

----------------------------------------------------------------------------
(* Bond chain: the difficulty of the next block *)

\* The chain holds a whole number of adjustment periods
AtRetargetBoundary ==
    Len(blocks) % network_params.difficulty_adjustment_period = 0

\* C34: get_next_difficulty retargets only after every adjustment_period
\* blocks: while the chain holds fewer blocks than the period, and between
\* two retarget boundaries, it is the difficulty of the current tip.
C34_RetargetOnlyAtBoundary ==
    (blocks # <<>> /\ network_params # None) =>
        ((Len(blocks) < network_params.difficulty_adjustment_period
            \/ ~AtRetargetBoundary)
         => Blockchain_get_next_difficulty(blocks, network_params)
                = Blockchain_get_latest_block(blocks).header.difficulty)

----------------------------------------------------------------------------
(* Bond chain: the value held in the UTXO set *)

\* total_supply of Blockchain::stats: the rewards of the blocks of the chain
Blockchain_stats_total_supply(blks, params) ==
    SumSeq([i \in 1..Len(blks) |->
               Blockchain_calculate_block_reward(params,
                   IF IsOk(Block_height(blks[i])) THEN Block_height(blks[i]).val ELSE 0)])

\* C36: after any sequence of accepted blocks the total value held in the
\* UTXO set is the sum of the block rewards of the blocks of the chain, the
\* total_supply that stats reports.
C36_UtxoTotalIsSupply ==
    (blocks # <<>> /\ network_params # None) =>
        SumValues(utxo_set, DOMAIN utxo_set)
            = Blockchain_stats_total_supply(blocks, network_params)

----------------------------------------------------------------------------
(* Bond chain: outputs spent by the accepted chain *)

\* The inputs of the non-coinbase transactions of the chain, each as
\* <<position of the block, position of the transaction, position of the input>>
SpendingInputs ==
    {p \in (1..Len(blocks)) \X (1..4) \X (1..4) :
        /\ p[2] <= Len(blocks[p[1]].transactions)
        /\ ~Transaction_is_coinbase(blocks[p[1]].transactions[p[2]])
        /\ p[3] <= Len(blocks[p[1]].transactions[p[2]].inputs)}

PreviousOutput(p) == blocks[p[1]].transactions[p[2]].inputs[p[3]].previous_output

\* C37: no output is consumed twice in the accepted chain: no two inputs,
\* in one transaction, in two transactions of one block or in two blocks,
\* spend the same output.
C37_NoDoubleSpend ==
    \A p, q \in SpendingInputs : p # q => PreviousOutput(p) # PreviousOutput(q)

----------------------------------------------------------------------------
(* Bond chain: the scripts of the transactions of an accepted block *)

\* validate_scripts returns Ok(true) for the transaction, in either build
ScriptsSatisfied(tx, utxos) ==
    \A overflow_checks \in BOOLEAN :
        \E r \in {Transaction_validate_scripts(tx, utxos, overflow_checks)} :
            r.err = "Ok" /\ r.val = TRUE

\* C38: add_block accepts a block only if validate_scripts returns true for
\* each of its non-coinbase transactions on the UTXO set before the block:
\* every input satisfies the locking script of the output it spends.
C38_ScriptsChecked ==
    [][(lastOp' = "add_block" /\ lastResult' = "Ok") =>
        \A t \in 2..Len(blocks'[Len(blocks')].transactions) :
            ScriptsSatisfied(blocks'[Len(blocks')].transactions[t], utxo_set)]_vars

----------------------------------------------------------------------------
(* src/network.rs: P2PNode::start and the event loop of P2PNode::run.  The
   node's blockchain is held in blocks, utxo_set and block_index.  The
   variable node holds
     pc          where the node is: "new" after P2PNode::new, "started" after
                 start, "select" while run waits in select!, "returned"
                 after run has returned
     returned    what run returned
     is_running, swarm (self.swarm.is_some()), blockchain
                 (self.blockchain.is_some()), peers (chain_height by peer)
     elapsed     the seconds since select! was entered: each pass of the
                 loop makes its two sleeps anew
     event       the last step: the branch of select! that was taken, or
                 "tick" for a second that passed
     published   the message the last step published on a topic, if any
   last_seen and last_status_log decide log lines only and are left out. *)

STATUS_INTERVAL == 30
LOG_INTERVAL == 1

MaxPeerHeight == 2   \* chain_height of a StatusAnnouncement is 0..MaxPeerHeight

LoopPeers == {"peer1"}

\* gossipsub.publish, a call into libp2p: it succeeds or returns a
\* PublishError (InsufficientPeers when no peer is subscribed)
PublishResults == {"Ok", "PublishError"}

\* publish_status_announcement and publish_status_to_peer: map_err(..)?
P2PNode_publish_status_announcement(publish) ==
    IF publish = "Ok" THEN "Ok" ELSE "NetworkError"

\* update_peer_info: the peers afterwards
P2PNode_update_peer_info(peers, peer_id, chain_height) ==
    MapInsert(peers, peer_id, [chain_height |-> chain_height])

\* P2PNode::new, then set_blockchain(Blockchain::new(..)) or not
LoopInit ==
    /\ LET genesis_block == Block_genesis(NetworkParams_default.initial_reward, Script1, 0)
           applied == Block_apply_to_utxo_set(genesis_block, UtxoSet_new)
       IN  /\ blocks = <<genesis_block>>
           /\ utxo_set = applied.val
           /\ block_index = [h \in {Block_hash(genesis_block)} |-> 0]
           /\ network_params = NetworkParams_default
    /\ lastOp = "new" /\ lastResult = "Ok" /\ lastMsg = "" /\ lastStage = ""
    /\ mined = None /\ created = None
    /\ MinerIdle /\ RetargetIdle /\ AevumIdle
    /\ proposal = None /\ mempool = None /\ vm = None
    /\ \E has_blockchain \in BOOLEAN :
          node = [pc |-> "new", returned |-> "", is_running |-> FALSE,
                  swarm |-> FALSE, blockchain |-> has_blockchain, peers |-> <<>>,
                  elapsed |-> 0, event |-> "new", published |-> ""]

\* what a step of the loop leaves alone when it does not touch the chain
LoopChainUnchanged ==
    /\ UNCHANGED bondVars
    /\ UNCHANGED <<minerVars, retargetVars, aevumVars, proposal, mempool, vm>>

\* node.start(): the swarm is built and is_running is set
Start ==
    /\ node.pc = "new"
    /\ node' = [node EXCEPT !.pc = "started", !.swarm = TRUE, !.is_running = TRUE,
                            !.event = "start", !.published = ""]
    /\ LoopChainUnchanged

\* node.run() up to the loop: without a swarm it returns an error; else it
\* takes the swarm out of self and publishes the initial status, and `?`
\* returns the error of a failed publish
Run ==
    /\ node.pc \in {"new", "started", "returned"}
    /\ IF ~node.swarm
       THEN node' = [node EXCEPT !.pc = "returned", !.returned = "NetworkError",
                                 !.event = "run", !.published = ""]
       ELSE \E publish \in PublishResults :
               IF P2PNode_publish_status_announcement(publish) = "Ok"
               THEN node' = [node EXCEPT !.pc = "select", !.returned = "",
                                !.swarm = FALSE, !.elapsed = 0, !.event = "run",
                                !.published = "StatusAnnouncement"]
               ELSE node' = [node EXCEPT !.pc = "returned",
                                !.returned = "NetworkError", !.swarm = FALSE,
                                !.event = "publish failed", !.published = ""]
    /\ LoopChainUnchanged

\* a second passes while run waits in select!
Tick ==
    /\ node.pc = "select"
    /\ node.elapsed < STATUS_INTERVAL
    /\ node' = [node EXCEPT !.elapsed = @ + 1, !.event = "tick", !.published = ""]
    /\ LoopChainUnchanged

\* a branch of select! whose handler returned Ok: the loop goes round and
\* select! starts its sleeps anew
NextPass(event, published, peers) ==
    node' = [node EXCEPT !.elapsed = 0, !.event = event, !.published = published,
                         !.peers = peers]

\* a branch of select! whose handler returned an error: `?` leaves run with
\* the swarm dropped and is_running as it was
LeaveWithError(peers) ==
    node' = [node EXCEPT !.pc = "returned", !.returned = "NetworkError",
                         !.event = "publish failed", !.published = "",
                         !.peers = peers]

\* the branch of tokio::time::sleep(Duration::from_secs(1)): a log line
LogTimer ==
    /\ node.pc = "select"
    /\ node.elapsed >= LOG_INTERVAL
    /\ NextPass("log timer", "", node.peers)
    /\ LoopChainUnchanged

\* the branch of tokio::time::sleep(Duration::from_secs(30))
StatusTimer ==
    /\ node.pc = "select"
    /\ node.elapsed >= STATUS_INTERVAL
    /\ \E publish \in PublishResults :
          IF P2PNode_publish_status_announcement(publish) = "Ok"
          THEN NextPass("status timer", "StatusAnnouncement", node.peers)
          ELSE LeaveWithError(node.peers)
    /\ LoopChainUnchanged

\* MdnsEvent::Discovered and MdnsEvent::Expired
MdnsDiscovered ==
    /\ node.pc = "select"
    /\ \E peer_id \in LoopPeers :
          NextPass("mdns discovered", "",
                   MapInsert(node.peers, peer_id, [chain_height |-> 0]))
    /\ LoopChainUnchanged

MdnsExpired ==
    /\ node.pc = "select"
    /\ \E peer_id \in LoopPeers :
          NextPass("mdns expired", "", MapRemove(node.peers, peer_id))
    /\ LoopChainUnchanged

\* SwarmEvent::ConnectionEstablished: a peer that is not known is inserted
\* and the status is published for it
ConnectionEstablished ==
    /\ node.pc = "select"
    /\ \E peer_id \in LoopPeers :
          IF peer_id \in DOMAIN node.peers
          THEN NextPass("connection established", "", node.peers)
          ELSE \E publish \in PublishResults :
                  IF P2PNode_publish_status_announcement(publish) = "Ok"
                  THEN NextPass("connection established", "StatusAnnouncement",
                           MapInsert(node.peers, peer_id, [chain_height |-> 0]))
                  ELSE LeaveWithError(
                           MapInsert(node.peers, peer_id, [chain_height |-> 0]))
    /\ LoopChainUnchanged

\* SwarmEvent::ConnectionClosed
ConnectionClosed ==
    /\ node.pc = "select"
    /\ \E peer_id \in LoopPeers :
          NextPass("connection closed", "", MapRemove(node.peers, peer_id))
    /\ LoopChainUnchanged

\* handle_gossipsub_message for a StatusAnnouncement on the sync topic
GossipStatusAnnouncement ==
    /\ node.pc = "select"
    /\ \E peer_id \in LoopPeers, chain_height \in 0..MaxPeerHeight :
          NextPass("StatusAnnouncement", "",
                   P2PNode_update_peer_info(node.peers, peer_id, chain_height))
    /\ LoopChainUnchanged

\* handle_gossipsub_message for BlockRequest, SyncRequest and
\* TransactionBroadcast: handle_block_request, handle_sync_request and
\* process_received_transaction write log lines and return Ok(())
GossipRequest ==
    /\ node.pc = "select"
    /\ \E message \in {"BlockRequest", "SyncRequest", "TransactionBroadcast"} :
          NextPass(message, "", node.peers)
    /\ LoopChainUnchanged

\* blocks a peer sends in one message: none, the successor of the tip, the
\* successor and its own successor, and a block on a wrong parent
LoopBlockMessages ==
    {<<>>} \cup {<<b>> : b \in NextBlocks}
    \cup UNION {{<<b, c>> : c \in ChildrenOf(b)} : b \in NextBlocks}
    \cup {<<b>> : b \in MakeBlock(ZeroHash, TRUE, 0, NextDifficulty,
                                  <<GoodCoinbase(<<>>)>>)}

\* handle_gossipsub_message for BlockBroadcast, BlockResponse and
\* SyncResponse: the blocks go through process_received_block
GossipBlocks ==
    /\ node.pc = "select"
    /\ \E message \in {"BlockBroadcast", "BlockResponse", "SyncResponse"},
          received \in LoopBlockMessages :
          /\ Len(blocks) + Len(received) <= MaxBlocks
          /\ message = "BlockBroadcast" => Len(received) = 1
          /\ \E done \in {P2PNode_process_received_blocks(node.blockchain, NodeChain,
                                                           network_params, received)} :
                /\ blocks' = done.chain.blocks
                /\ utxo_set' = done.chain.utxo_set
                /\ block_index' = done.chain.block_index
                /\ lastOp' = message
                /\ lastResult' = done.returned
          /\ NextPass(message, "", node.peers)
    /\ lastMsg' = "" /\ lastStage' = ""
    /\ UNCHANGED <<network_params, mined, created>>
    /\ UNCHANGED <<minerVars, retargetVars, aevumVars, proposal, mempool, vm>>

\* the branch of tokio::signal::ctrl_c(): break, the swarm is put back and
\* is_running is cleared
CtrlC ==
    /\ node.pc = "select"
    /\ node' = [node EXCEPT !.pc = "returned", !.returned = "Ok", !.swarm = TRUE,
                            !.is_running = FALSE, !.event = "ctrl_c",
                            !.published = ""]
    /\ LoopChainUnchanged

LoopNext ==
    \/ Start \/ Run \/ Tick \/ LogTimer \/ StatusTimer
    \/ MdnsDiscovered \/ MdnsExpired \/ ConnectionEstablished \/ ConnectionClosed
    \/ GossipStatusAnnouncement \/ GossipRequest \/ GossipBlocks \/ CtrlC

LoopSpec == LoopInit /\ [][LoopNext]_vars

\* The runtime lets time pass and polls the task when a sleep is over; what
\* the application, the peers and the user do is left to them
LoopFairSpec ==
    /\ LoopSpec
    /\ WF_vars(Tick) /\ WF_vars(LogTimer) /\ WF_vars(StatusTimer)

\* A peer has announced the chain height h, which is above the local height
PeerAhead(h) ==
    /\ node.pc = "select"
    /\ node.blockchain
    /\ h > Blockchain_height(blocks)
    /\ \E peer_id \in DOMAIN node.peers : node.peers[peer_id].chain_height = h

\* C31: once a peer's StatusAnnouncement reports a chain_height above the
\* local height, the running node requests the missing blocks and its chain
\* eventually reaches the announced height.
C31_CatchesUp ==
    \A h \in 1..MaxPeerHeight :
        PeerAhead(h) ~> (node.pc # "select" \/ Blockchain_height(blocks) >= h)

\* C32: while the event loop is running a StatusAnnouncement is published
\* on the sync topic again and again, whatever other branches of the loop
\* are taken.
C32_StatusPublishedForever ==
    (node.pc = "select") ~> (node.pc # "select" \/ node.published = "StatusAnnouncement")

\* C33: a publish that fails is only logged: after it the event loop is
\* still running and the node is in the running state.
C33_FailedPublishOnlyLogged ==
    [][node'.event = "publish failed" =>
          (node'.pc = "select" /\ node'.is_running)]_vars

====
